---- MODULE Spec2Model ----
(***************************************************************************)
(* A model of Bitwuzla's API layer.  The solving-context facade: the       *)
(* assertion stack with push/pop, the preprocessing fixed point,           *)
(* check_sat, get_value, get_unsat_core and simplify (api/cpp/bitwuzla.cpp,*)
(* solving_context.cpp, preprocess/preprocessor.cpp).  The function        *)
(* solver's congruence check inside one solve() (solver/fun).  The         *)
(* Options object and the copy an instance holds (option/option.h, env.h). *)
(* The node manager's unique tables and the term and sort handles of the   *)
(* C API (api/c/bitwuzla.cpp).                                             *)
(***************************************************************************)
EXTENDS Integers, Sequences, FiniteSets, TLC

(* ----------------------------------------------------------------------- *)
(* Bounds of the model                                                     *)
(* ----------------------------------------------------------------------- *)

\* largest number of pushed context levels explored
MaxLevels == 1

\* largest number of assertions on the assertion stack explored
MaxAssertions == 2

\* largest nlevels argument given to push(nlevels) / pop(nlevels)
MaxPush == 2

(* ----------------------------------------------------------------------- *)
(* Terms (Node): kind, sort, symbol / value payload, children              *)
(* ----------------------------------------------------------------------- *)

Node(k, s, y, c) == [kind |-> k, sort |-> s, sym |-> y, ch |-> c]

\* Term(): the null term, d_node == nullptr
NullTerm == Node("NULL", "none", "", <<>>)

d_true == Node("VALUE", "Bool", "true", <<>>)

mk_false == Node("VALUE", "Bool", "false", <<>>)

d_bool_const == Node("CONSTANT", "Bool", "p", <<>>)


d_bv_const8 == Node("CONSTANT", "BV8", "b8", <<>>)


d_bool_var == Node("VARIABLE", "Bool", "x", <<>>)

mk_not(a) == Node("NOT", "Bool", "", <<a>>)

mk_equal(a, b) == Node("EQUAL", "Bool", "", <<a, b>>)

d_bool_lambda_body == mk_equal(d_bool_var, d_true)

d_bool_lambda == Node("LAMBDA", "Fun", "", <<d_bool_var, d_bool_lambda_body>>)

d_bool_apply == Node("APPLY", "Bool", "", <<d_bool_lambda, d_true>>)

not_bool_const == mk_not(d_bool_const)

not_bool_apply == mk_not(d_bool_apply)

\* the Boolean constants (free symbols) a model assigns
Consts == {"p"}

\* truth assignments to the Boolean constants
Models == [Consts -> BOOLEAN]

DefaultModel == [c \in Consts |-> FALSE]

\* well-sorted closed formulas handed to assert_formula
BoolTerms ==
  {d_true, d_bool_const, not_bool_const, d_bool_apply, not_bool_apply}

\* arguments the API must reject: null term, non-Bool sorts, bound variable
BadTerms == {NullTerm, d_bv_const8, d_bool_var}

is_bool(t) == t.sort = "Bool"

\* value of a term under model m and binding env of the bound variable
RECURSIVE Eval(_, _, _)
Eval(t, m, env) ==
  CASE t.kind = "VALUE"    -> t.sym = "true"
    [] t.kind = "CONSTANT" -> m[t.sym]
    [] t.kind = "VARIABLE" -> env
    [] t.kind = "NOT"      -> ~Eval(t.ch[1], m, env)
    [] t.kind = "AND"      -> Eval(t.ch[1], m, env) /\ Eval(t.ch[2], m, env)
    [] t.kind = "EQUAL"    -> Eval(t.ch[1], m, env) = Eval(t.ch[2], m, env)
    [] t.kind = "APPLY"    -> Eval(t.ch[1].ch[2], m, Eval(t.ch[2], m, env))
    [] OTHER               -> FALSE

Holds(t, m) == Eval(t, m, FALSE)

(* ----------------------------------------------------------------------- *)
(* Preprocessing passes                                                    *)
(* ----------------------------------------------------------------------- *)

rebuild_node(t, children) == [t EXCEPT !.ch = children]

\* the rewrite pass on one term: children first, then constant folding
RECURSIVE PassRewrite_process(_)
PassRewrite_process(t) ==
  LET c == [i \in DOMAIN t.ch |-> PassRewrite_process(t.ch[i])]
      r == rebuild_node(t, c)
  IN CASE t.kind = "NOT" ->
            IF c[1].kind = "VALUE"
              THEN (IF c[1].sym = "true" THEN mk_false ELSE d_true)
            ELSE IF c[1].kind = "NOT" THEN c[1].ch[1]
            ELSE r
       [] t.kind = "AND" ->
            IF c[1] = mk_false \/ c[2] = mk_false THEN mk_false
            ELSE IF c[1] = d_true THEN c[2]
            ELSE IF c[2] = d_true THEN c[1]
            ELSE IF c[1] = c[2] THEN c[1]
            ELSE r
       [] t.kind = "EQUAL" ->
            IF c[1] = c[2] THEN d_true
            ELSE IF c[1] = d_true THEN c[2]
            ELSE IF c[2] = d_true THEN c[1]
            ELSE IF c[1].kind = "VALUE" /\ c[2].kind = "VALUE" THEN mk_false
            ELSE r
       [] OTHER -> r

\* PassElimLambda::process and PassElimLambda::reduce: every APPLY whose
\* function is a LAMBDA is replaced by the lambda body with the processed
\* argument substituted for the bound variable
RECURSIVE PassElimLambda_process(_)
RECURSIVE PassElimLambda_subst(_, _, _)
PassElimLambda_subst(cur, var, arg) ==
  IF cur.kind = "APPLY" /\ cur.ch[1].kind = "LAMBDA"
    THEN PassElimLambda_subst(PassElimLambda_process(cur), var, arg)
  ELSE IF cur = var THEN arg
  ELSE rebuild_node(cur, [i \in DOMAIN cur.ch |->
                            PassElimLambda_subst(cur.ch[i], var, arg)])

PassElimLambda_reduce(node) ==
  PassElimLambda_subst(node.ch[1].ch[2], node.ch[1].ch[1],
                       PassElimLambda_process(node.ch[2]))

PassElimLambda_process(t) ==
  IF t.kind = "APPLY" /\ t.ch[1].kind = "LAMBDA"
    THEN PassElimLambda_reduce(t)
  ELSE rebuild_node(t, [i \in DOMAIN t.ch |-> PassElimLambda_process(t.ch[i])])

\* the passes Preprocessor::apply runs in one iteration, in its order;
\* skeleton_preproc only while skel_done is false
PassOrder(skel_done) ==
  <<"rewrite", "flatten_and", "variable_subst">>
  \o (IF skel_done THEN <<>> ELSE <<"skeleton_preproc">>)
  \o <<"embedded_constr", "contr_ands", "elim_lambda", "elim_uninterpreted",
       "normalize">>

\* one pass on one assertion; the passes other than rewrite and elim_lambda
\* find nothing to change in the terms of this model
PassProcess(pass, t) ==
  CASE pass = "rewrite"     -> PassRewrite_process(t)
    [] pass = "elim_lambda" -> PassElimLambda_process(t)
    [] OTHER                -> t

\* <pass>.apply(assertions): every assertion of the vector is replaced by
\* its processed form
PassApply(pass, vec) == [i \in DOMAIN vec |-> PassProcess(pass, vec[i])]

RECURSIVE RunPasses(_, _)
RunPasses(passes, vec) ==
  IF passes = <<>> THEN vec
  ELSE RunPasses(Tail(passes), PassApply(Head(passes), vec))

\* a loop that gives up after its first iteration, as one stopped by a
\* terminator would
Preprocessor_apply_once(vec, skel_done, iters, passes) ==
  LET order == PassOrder(skel_done)
  IN [vec |-> RunPasses(order, vec), iters |-> iters + 1,
      passes |-> passes + Len(order)]

\* Preprocessor::apply: the fixed-point loop over one level's assertions.
\* Returns the final vector, the iterations run and the passes applied.
\* The loop never consults the terminator.
RECURSIVE Preprocessor_apply_loop(_, _, _, _)
Preprocessor_apply_loop(vec, skel_done, iters, passes) ==
  LET order == PassOrder(skel_done)
      next  == RunPasses(order, vec)
      modified == next # vec
  IN IF modified
       THEN Preprocessor_apply_loop(next, TRUE, iters + 1, passes + Len(order))
     ELSE [vec |-> next, iters |-> iters + 1, passes |-> passes + Len(order)]

Preprocessor_apply(vec) ==
  IF Len(vec) = 0 THEN [vec |-> vec, iters |-> 0, passes |-> 0]
  ELSE Preprocessor_apply_loop(vec, FALSE, 0, 0)

\* a sync_scope that pushes nothing
sync_scope_skip(ppl, level) == ppl

\* Preprocessor::sync_scope: push preprocessor levels up to `level`
Preprocessor_sync_scope(ppl, level) == IF ppl < level THEN level ELSE ppl

\* AssertionVector(view): the pending assertions that share the level of the
\* first pending assertion
AssertionVector_size(as, view) ==
  Cardinality({i \in (view + 1)..Len(as) :
                 \A j \in (view + 1)..i : as[j].level = as[view + 1].level})

\* Preprocessor::preprocess: level by level until the view is empty
RECURSIVE Preprocessor_preprocess_loop(_, _, _, _, _)
Preprocessor_preprocess_loop(as, view, ppl, iters, passes) ==
  IF view = Len(as)
    THEN [assertions |-> as, view |-> view, pp_levels |-> ppl,
          iters |-> iters, passes |-> passes]
  ELSE LET level == as[view + 1].level
           size  == AssertionVector_size(as, view)
           vec   == [i \in 1..size |-> as[view + i].node]
           fix   == Preprocessor_apply(vec)
           as1   == [i \in DOMAIN as |->
                       IF i > view /\ i <= view + size
                         THEN [node |-> fix.vec[i - view], level |-> level]
                       ELSE as[i]]
       IN Preprocessor_preprocess_loop(as1, view + size,
                                       Preprocessor_sync_scope(ppl, level),
                                       iters + fix.iters, passes + fix.passes)

Preprocessor_preprocess(as, view, ppl, levels) ==
  IF view = Len(as)
    THEN [assertions |-> as, view |-> view, pp_levels |-> ppl,
          iters |-> 0, passes |-> 0, result |-> "UNKNOWN"]
  ELSE LET r == Preprocessor_preprocess_loop(as, view, ppl, 0, 0)
       IN [assertions |-> r.assertions, view |-> r.view,
           pp_levels |-> Preprocessor_sync_scope(r.pp_levels, levels),
           iters |-> r.iters, passes |-> r.passes, result |-> "UNKNOWN"]

(* ----------------------------------------------------------------------- *)
(* State of one Bitwuzla instance                                          *)
(* ----------------------------------------------------------------------- *)

VARIABLES
  incremental,            \* option INCREMENTAL, bound at construction
  d_levels,               \* d_backtrack_mgr.num_levels()
  d_assertions,           \* d_assertions: <<[node, level]>>, preprocessed in place
  d_view,                 \* assertions already consumed through the view
  d_original_assertions,  \* d_original_assertions: <<[node, level]>>
  pp_levels,              \* Preprocessor::d_backtrack_mgr.num_levels()
  d_sat_state,            \* d_sat_state: result of the last solve()
  d_model,                \* the solver engine's model after SAT
  d_core,                 \* the solver engine's unsat core (assertion indices)
  d_terminator,           \* Env::d_terminator: "none", or what terminate() returns
  checked,                \* check_sat was called on this instance before
  op,                     \* the last API call, its outcome and what it returned
  tracking,               \* whether push/assert/check_sat/pop sequences are recorded
  phase,                  \* progress through push(); assert; check_sat(); pop()
  snap                    \* the context as it was right before that push()

\* the function solver and the refinement loop of one solve()
VARIABLES
  d_engine_state,         \* where the running check_sat is, "IDLE" between calls
  d_constraints,          \* the constraints bit-blasted for the SAT solver
  d_terms,                \* the APPLY terms of the input, in registration order
  d_applies,              \* FunSolver::d_applies
  d_fun_models,           \* FunSolver::d_fun_models
  d_lemmas,               \* the lemmas sent through SolverState::lemma
  d_bv_model,             \* the SAT solver's current assignment
  d_engine_result         \* the SAT solver's last answer in this solve()

\* the Options object a Bitwuzla instance is constructed from
VARIABLES
  objects,                \* the option objects in memory, by where they live
  d_env_options,          \* the object Env::options() reads, "none" before
  constructed_with,       \* the option values the constructor was given
  opt_call                \* the last call on the Options object or on options()

\* the node manager and the handles of the C API
VARIABLES
  d_node_table,           \* the manager's unique table; a node's id is its place
  d_type_table,           \* the manager's unique table of types
  term_map,               \* Bitwuzla::term_map(): term id -> external references
  sort_map,               \* Bitwuzla::sort_map(): sort id -> external references
  instance,               \* the Bitwuzla* of the C API: "live" or "deleted"
  capi_call               \* the last call of the C API on terms, sorts, instance

\* the command line front end (main)
VARIABLES
  argv,                   \* argv[1..argc-1]
  infile,                 \* what the input file a.smt2 holds
  main_i,                 \* the loop variable i of main
  main_args,              \* args: the arguments kept for options.set
  filename,               \* filename: the argument taken as the input file
  main_pc,                \* where main is
  exit_status             \* how the process ended, once it has

\* one case of the overflow tests: two values, one predicate, one solve()
VARIABLES
  ov_case,                \* kind, num_bits, i, j and the rewrite level
  ov_assertions,          \* the assertions of the test's SolvingContext
  ov_sat_state,           \* what its solve() returned
  ov_pc                   \* "fresh", "asserted" or "solved"

\* the preprocessor, step by step, on its assertion stack
VARIABLES
  pp_options,             \* the pp_* toggles of d_env.options()
  pp_stack,               \* the assertion stack: node and level of each entry
  pp_index,               \* the view's index: the entries already consumed
  pp_num_levels,          \* d_global_backtrack_mgr.num_levels()
  pp_bt_levels,           \* d_backtrack_mgr.num_levels(), the preprocessor's
  pp_cache,               \* the passes' backtrackable cache of assertions
  pp_pc,                  \* "idle", "level", "top", "pass" or "test"
  pp_pass,                \* the place in the loop body of apply()
  pp_vec,                 \* the AssertionVector of the level being handled
  pp_modified,            \* its d_modified
  pp_skel_done,           \* skel_done of apply()
  pp_ran,                 \* the passes run in the current iteration
  pp_iterations,          \* the iterations of the current apply()
  pp_done,                \* the levels this preprocess() has finished
  pp_op                   \* the last step taken

\* the elim_lambda pass on its own, applied to one vector
VARIABLES
  el_original,            \* the vector as it was given
  el_assertions,          \* the vector
  el_cache,               \* the pass's cache of assertions
  el_modified,            \* the vector's modified count after the last apply
  el_applications         \* how many times apply() has run

\* the printer on one term
VARIABLES
  pt_root,                \* the term given to Printer::print
  pt_out,                 \* what was written to the stream, as a tree
  pt_done                 \* whether print has run

\* one TimerStatistic and the Timers alive on it
VARIABLES
  tm_stat,                \* d_running, d_start, d_elapsed
  tm_timers,              \* the live Timer objects, innermost last
  tm_now,                 \* std::chrono::steady_clock::now()
  tm_outcome              \* "ok", or what a failed assert left

facade == <<incremental, d_levels, d_assertions, d_view,
            d_original_assertions, pp_levels, d_sat_state, d_model, d_core,
            d_terminator, checked, op, tracking, phase, snap>>

engine == <<d_engine_state, d_constraints, d_terms, d_applies, d_fun_models,
            d_lemmas, d_bv_model, d_engine_result>>

optvars == <<objects, d_env_options, constructed_with, opt_call>>

capi == <<d_node_table, d_type_table, term_map, sort_map, instance,
          capi_call>>

cli == <<argv, infile, main_i, main_args, filename, main_pc, exit_status>>

\* the groups of the front end and of the utilities
overflow == <<ov_case, ov_assertions, ov_sat_state, ov_pc>>

pp == <<pp_options, pp_stack, pp_index, pp_num_levels, pp_bt_levels,
        pp_cache, pp_pc, pp_pass, pp_vec, pp_modified, pp_skel_done, pp_ran,
        pp_iterations, pp_done, pp_op>>

elim == <<el_original, el_assertions, el_cache, el_modified, el_applications>>

printer == <<pt_root, pt_out, pt_done>>

timer == <<tm_stat, tm_timers, tm_now, tm_outcome>>

later == <<cli, overflow, pp, elim, printer, timer>>

\* what the calls on the Bitwuzla instance leave alone
others == <<engine, optvars, capi, later>>

\* what the steps of a solve() leave alone
engine_frame == <<facade, optvars, capi, later>>

\* what the calls on an Options object leave alone
options_frame == <<facade, engine, capi, later>>

\* what the C API's calls on terms and sorts leave alone
capi_frame == <<facade, engine, optvars, later>>

\* what main leaves alone
cli_frame == <<facade, engine, optvars, capi, overflow, pp, elim, printer, timer>>

\* what a case of the overflow tests leaves alone
overflow_frame == <<facade, engine, optvars, capi, cli, pp, elim, printer, timer>>

\* what the steps of the preprocessor leave alone
pp_frame == <<facade, engine, optvars, capi, cli, overflow, elim, printer, timer>>

\* what the elim_lambda pass leaves alone
elim_frame == <<facade, engine, optvars, capi, cli, overflow, pp, printer, timer>>

\* what the printer leaves alone
printer_frame == <<facade, engine, optvars, capi, cli, overflow, pp, elim, timer>>

\* what the timers leave alone
timer_frame == <<facade, engine, optvars, capi, cli, overflow, pp, elim, printer>>

vars == <<facade, others>>

ctx == <<d_levels, d_assertions, d_view, d_original_assertions, pp_levels,
         d_sat_state, d_model, d_core, checked>>

\* the record of an API call: its name, how it ended, what it returned, the
\* kind of its term argument, its numeric argument, and what held before it
Call(name, outcome, result, tag, n, pre) ==
  [name |-> name, outcome |-> outcome, result |-> result, tag |-> tag,
   n |-> n, pre |-> pre, fired |-> FALSE, iters |-> 0, passes |-> 0]

\* what a failed assert() leaves: abort() in a build with assertions, and
\* execution past the violated precondition in a build with NDEBUG
AssertFailed == {"abort", "ub"}

\* outcomes after which the process is gone or its behaviour undefined
Dead == {"abort", "crash", "ub"}

Alive == op.outcome \notin Dead

NoSnap ==
  [assertions |-> <<>>, view |-> 0, orig |-> <<>>, levels |-> 0,
   pp_levels |-> 0, sat_state |-> "UNKNOWN", model |-> DefaultModel,
   core |-> {}, r |-> "none"]

Snapshot ==
  [assertions |-> d_assertions, view |-> d_view,
   orig |-> d_original_assertions, levels |-> d_levels,
   pp_levels |-> pp_levels, sat_state |-> d_sat_state, model |-> d_model,
   core |-> d_core, r |-> "none"]

\* no step of the push(); assert; check_sat(); pop() sequence
Untrack == phase' = 0 /\ snap' = NoSnap

\* SolvingContext::SolvingContext and Bitwuzla::Bitwuzla: empty stacks,
\* d_sat_state = Result::UNKNOWN, no terminator
InitCtx ==
  /\ incremental \in BOOLEAN
  /\ d_levels = 0
  /\ d_assertions = <<>>
  /\ d_view = 0
  /\ d_original_assertions = <<>>
  /\ pp_levels = 0
  /\ d_sat_state = "UNKNOWN"
  /\ d_model = DefaultModel
  /\ d_core = {}
  /\ d_terminator = "none"
  /\ checked = FALSE
  /\ op = Call("new", "ok", "none", "", 0, 0)
  /\ phase = 0
  /\ snap = NoSnap

\* no solve() under way, nothing registered with the function solver
EngineIdle ==
  /\ d_engine_state = "IDLE"
  /\ d_constraints = {}
  /\ d_terms = <<>>
  /\ d_applies = <<>>
  /\ d_fun_models = {}
  /\ d_lemmas = {}
  /\ d_bv_model = <<>>
  /\ d_engine_result = "UNKNOWN"

\* option::Options::Options: every option at its default, no instance yet
DefaultOptions ==
  [incremental |-> FALSE, verbosity |-> 0, bv_solver |-> "bitblast"]

OptCall(name, option, value, outcome, pre, result) ==
  [name |-> name, option |-> option, value |-> value, outcome |-> outcome,
   pre |-> pre, result |-> result]

OptionsIdle ==
  /\ objects = [api |-> DefaultOptions, env |-> DefaultOptions]
  /\ d_env_options = "none"
  /\ constructed_with = DefaultOptions
  /\ opt_call = OptCall("Options", "", 0, "ok", DefaultOptions, DefaultOptions)

\* a call of the C API: how it ended, the id it returned, whether the
\* manager had the entry already, and the entry asked for
NoKey == [kind |-> "none"]

CCall(name, outcome, id, existed, key) ==
  [name |-> name, outcome |-> outcome, id |-> id, existed |-> existed,
   key |-> key]

\* no node, no type, no handle; one instance from bitwuzla_new
CApiIdle ==
  /\ d_node_table = <<>>
  /\ d_type_table = <<>>
  /\ term_map = <<>>
  /\ sort_map = <<>>
  /\ instance = "live"
  /\ capi_call = CCall("bitwuzla_new", "ok", 0, FALSE, NoKey)

\* how a process ended: exit(code), or a signal
Exit(code) == [kind |-> "exit", code |-> code]

Signal(name) == [kind |-> "signal", code |-> name]

Running == [kind |-> "running", code |-> 0]

\* main not entered: no argument, nothing collected
CliIdle ==
  /\ argv = <<>>
  /\ infile = "no_check_sat"
  /\ main_i = 1
  /\ main_args = <<>>
  /\ filename = ""
  /\ main_pc = "loop"
  /\ exit_status = Running

\* no test case under way
OverflowIdle ==
  /\ ov_case = [kind |-> "none", num_bits |-> 1, i |-> 0, j |-> 0, rwl |-> 0]
  /\ ov_assertions = <<>>
  /\ ov_sat_state = "UNKNOWN"
  /\ ov_pc = "fresh"

\* the pp_* toggles all on
AllPassesOn ==
  [flatten_and |-> TRUE, variable_subst |-> TRUE, skeleton_preproc |-> TRUE,
   embedded_constr |-> TRUE, contr_ands |-> TRUE, normalize |-> TRUE]

NoVec == [begin |-> 0, size |-> 0, level |-> 0]

PPOp(name, dropped) == [name |-> name, dropped |-> dropped]

\* Preprocessor::Preprocessor on a new context: nothing asserted, no level
PPStart ==
  /\ pp_stack = <<>>
  /\ pp_index = 0
  /\ pp_num_levels = 0
  /\ pp_bt_levels = 0
  /\ pp_cache = {}
  /\ pp_pc = "idle"
  /\ pp_pass = 1
  /\ pp_vec = NoVec
  /\ pp_modified = 0
  /\ pp_skel_done = FALSE
  /\ pp_ran = <<>>
  /\ pp_iterations = 0
  /\ pp_done = <<>>
  /\ pp_op = PPOp("new", 0)

PPIdle == pp_options = AllPassesOn /\ PPStart

\* no vector given to the pass
ElimIdle ==
  /\ el_original = <<>>
  /\ el_assertions = <<>>
  /\ el_cache = {}
  /\ el_modified = 0
  /\ el_applications = 0

\* a piece of output: a printed leaf, a let symbol, an operator with its
\* arguments, a binder with its body, or a let block
Out(tag, kind, name, node, bind, ch) ==
  [tag |-> tag, kind |-> kind, name |-> name, node |-> node, bind |-> bind,
   ch |-> ch]

NoOut == Out("none", "", "", NullTerm, <<>>, <<>>)

\* nothing printed
PrinterIdle ==
  /\ pt_root = NullTerm
  /\ pt_out = NoOut
  /\ pt_done = FALSE

\* TimerStatistic::TimerStatistic(): stopped, nothing elapsed
NewTimerStatistic == [d_running |-> FALSE, d_start |-> 0, d_elapsed |-> 0]

\* no Timer was ever created
TimerIdle ==
  /\ tm_stat = NewTimerStatistic
  /\ tm_timers = <<>>
  /\ tm_now = 0
  /\ tm_outcome = "ok"

LaterIdle ==
  CliIdle /\ OverflowIdle /\ PPIdle /\ ElimIdle /\ PrinterIdle /\ TimerIdle

OthersIdle == EngineIdle /\ OptionsIdle /\ CApiIdle /\ LaterIdle

Init == InitCtx /\ tracking = FALSE /\ OthersIdle

InitIso == InitCtx /\ tracking = TRUE /\ OthersIdle

(* ----------------------------------------------------------------------- *)
(* Backtrack manager and assertion stack                                   *)
(* ----------------------------------------------------------------------- *)

\* a manager whose pop leaves the backtrackable vectors as they are
Backtrack_keep(stack, levels) == stack

\* the backtrackable vectors after the manager went back to `levels` levels
Backtrack_pop(stack, levels) == SelectSeq(stack, LAMBDA e : e.level <= levels)

Min(a, b) == IF a < b THEN a ELSE b

\* AssertionStack::push_back: the assertion enters the current level
AssertionStack_push_back(stack, formula, level) ==
  Append(stack, [node |-> formula, level |-> level])

(* ----------------------------------------------------------------------- *)
(* push / pop                                                              *)
(* ----------------------------------------------------------------------- *)

\* a push that opens no level
push_nothing(levels) == levels

\* SolvingContext::push: d_backtrack_mgr.push()
SolvingContext_push(levels) == levels + 1

\* a pop that lowers the level count and leaves the backtrackable vectors
pop_levels_only(c) == [c EXCEPT !.levels = c.levels - 1]

\* SolvingContext::pop: d_backtrack_mgr.pop() takes the top level off
\* d_assertions and d_original_assertions, and the pop callback takes the
\* preprocessor's manager along
SolvingContext_pop(c) ==
  LET l == c.levels - 1
      a == Backtrack_pop(c.assertions, l)
  IN [levels |-> l, assertions |-> a,
      orig |-> Backtrack_pop(c.orig, l),
      view |-> Min(c.view, Len(a)),
      pp_levels |-> Min(c.pp_levels, l)]

RECURSIVE PushTimes(_, _)
PushTimes(levels, n) ==
  IF n = 0 THEN levels ELSE PushTimes(SolvingContext_push(levels), n - 1)

RECURSIVE PopTimes(_, _)
PopTimes(c, n) ==
  IF n = 0 \/ c.levels = 0 THEN c ELSE PopTimes(SolvingContext_pop(c), n - 1)

\* Bitwuzla::push(nlevels): nlevels times d_ctx->push(), nothing is checked
Bitwuzla_push(n) ==
  /\ Alive
  /\ UNCHANGED others
  /\ d_levels + n <= MaxLevels
  /\ d_levels' = PushTimes(d_levels, n)
  /\ op' = Call("push", "ok", "none", "", n, d_levels)
  /\ IF tracking /\ n = 1
       THEN phase' = 1 /\ snap' = Snapshot
     ELSE Untrack
  /\ UNCHANGED <<incremental, d_assertions, d_view,
                 d_original_assertions, pp_levels, d_sat_state, d_model,
                 d_core, d_terminator, checked, tracking>>

\* Bitwuzla::pop(nlevels): nlevels times d_ctx->pop(), nothing is checked
\* before the loop; a pop at the root level fails inside the manager, after
\* the levels that existed have been popped
Bitwuzla_pop(n) ==
  /\ Alive
  /\ UNCHANGED others
  /\ LET c == PopTimes([levels |-> d_levels, assertions |-> d_assertions,
                        orig |-> d_original_assertions, view |-> d_view,
                        pp_levels |-> pp_levels], n)
     IN /\ d_levels' = c.levels
        /\ d_assertions' = c.assertions
        /\ d_original_assertions' = c.orig
        /\ d_view' = c.view
        /\ pp_levels' = c.pp_levels
        /\ op' = Call("pop", IF n > d_levels THEN "exception" ELSE "ok",
                      "none", "", n, d_levels)
  /\ IF tracking /\ n = 1 /\ d_levels >= 1 /\ phase = 3
       THEN phase' = 4 /\ snap' = snap
     ELSE Untrack
  /\ UNCHANGED <<incremental, d_sat_state, d_model, d_core,
                 d_terminator, checked, tracking>>

(* ----------------------------------------------------------------------- *)
(* assert_formula                                                          *)
(* ----------------------------------------------------------------------- *)

SortTag(t) ==
  IF t = NullTerm THEN "null"
  ELSE IF ~is_bool(t) THEN "nonbool"
  ELSE IF t.kind = "VARIABLE" THEN "boundvar"
  ELSE "bool"

\* an assert_formula that records the original and forgets the assertion
assert_formula_orig_only(c, formula) ==
  [assertions |-> c.assertions,
   orig |-> AssertionStack_push_back(c.orig, formula, c.levels)]

\* SolvingContext::assert_formula: the formula is appended to d_assertions
\* and, when that accepts it, to d_original_assertions; push_back accepts
\* every formula
SolvingContext_assert_formula(c, formula) ==
  [assertions |-> AssertionStack_push_back(c.assertions, formula, c.levels),
   orig |-> AssertionStack_push_back(c.orig, formula, c.levels)]

\* Bitwuzla::assert_formula(term): d_ctx->assert_formula(*term.d_node) with no
\* check of the argument. A null term is dereferenced; a term that is not of
\* sort Bool meets only the assert() of SolvingContext::assert_formula.
Bitwuzla_assert_formula(t) ==
  /\ Alive
  /\ UNCHANGED others
  /\ Len(d_assertions) < MaxAssertions
  /\ LET c == SolvingContext_assert_formula(
                [assertions |-> d_assertions, orig |-> d_original_assertions,
                 levels |-> d_levels], t)
         appended == /\ d_assertions' = c.assertions
                     /\ d_original_assertions' = c.orig
         nothing == UNCHANGED <<d_assertions, d_original_assertions>>
     IN CASE t = NullTerm ->
               /\ nothing
               /\ \E o \in {"crash", "ub"} :
                    op' = Call("assert_formula", o, "none", SortTag(t), 0, 0)
          [] t # NullTerm /\ ~is_bool(t) ->
               \/ /\ nothing
                  /\ op' = Call("assert_formula", "abort", "none", SortTag(t),
                                0, 0)
               \/ /\ appended
                  /\ op' = Call("assert_formula", "ub", "none", SortTag(t),
                                0, 0)
          [] OTHER ->
               /\ appended
               /\ op' = Call("assert_formula", "ok", "none", SortTag(t), 0, 0)
  /\ IF tracking /\ phase = 1 /\ t \in BoolTerms
       THEN phase' = 2 /\ snap' = snap
     ELSE Untrack
  /\ UNCHANGED <<incremental, d_levels, d_view, pp_levels,
                 d_sat_state, d_model, d_core, d_terminator, checked,
                 tracking>>

(* ----------------------------------------------------------------------- *)
(* check_sat                                                               *)
(* ----------------------------------------------------------------------- *)

\* the free (unbound) variables of a term
RECURSIVE FreeVars(_)
FreeVars(t) ==
  IF t.kind = "VARIABLE" THEN {t}
  ELSE LET below == UNION {FreeVars(t.ch[i]) : i \in DOMAIN t.ch}
       IN IF t.kind = "LAMBDA" THEN below \ {t.ch[1]} ELSE below

\* SolvingContext::check_no_free_variables (debug builds): TRUE when it
\* finds nothing and the process goes on
check_no_free_variables(as) ==
  \A i \in DOMAIN as : FreeVars(as[i].node) = {}

\* the models of a stack of assertions
ModelsOf(as) == {m \in Models : \A i \in DOMAIN as : Holds(as[i].node, m)}

\* the subsets of assertion indices that no model satisfies
UnsatCores(as) ==
  {c \in SUBSET DOMAIN as :
     ~\E m \in Models : \A i \in c : Holds(as[i].node, m)}

\* kissat_solve: 10 for a satisfiable CNF, 20 for an unsatisfiable one, 0
\* when the connected terminate callback answered true while it searched
kissat_solve(models, terminated) ==
  IF terminated THEN 0 ELSE IF models # {} THEN 10 ELSE 20

\* a mapping that knows no third answer
Kissat_solve_two_valued(res) == IF res = 10 THEN "SAT" ELSE "UNSAT"

\* Kissat::solve
Kissat_solve(res) ==
  IF res = 10 THEN "SAT" ELSE IF res = 20 THEN "UNSAT" ELSE "UNKNOWN"

\* SolverEngine::solve: the bit-blasted assertions go to the SAT solver
SolverEngine_solve(as, terminated) ==
  Kissat_solve(kissat_solve(ModelsOf(as), terminated))

\* s_results: bzla::Result to bitwuzla::Result
s_results(r) == r

\* Bitwuzla::check_sat: SolvingContext::solve, i.e. preprocess(), then
\* d_sat_state = d_solver_engine.solve(). `polled` says whether the SAT
\* solver came to ask the connected terminator during its search.
Bitwuzla_check_sat(polled) ==
  /\ Alive
  /\ UNCHANGED others
  /\ polled => d_terminator # "none"
  /\ IF ~check_no_free_variables(d_assertions)
       THEN /\ \E o \in AssertFailed :
                 op' = Call("check_sat", o, "none", "", 0,
                            IF checked THEN 1 ELSE 0)
            /\ UNCHANGED ctx
     ELSE LET pre   == Preprocessor_preprocess(d_assertions, d_view,
                                               pp_levels, d_levels)
              fired == polled /\ d_terminator = "true"
              res   == SolverEngine_solve(pre.assertions, fired)
          IN /\ d_assertions' = pre.assertions
             /\ d_view' = pre.view
             /\ pp_levels' = pre.pp_levels
             /\ d_sat_state' = res
             /\ d_model' \in (IF res = "SAT" THEN ModelsOf(pre.assertions)
                              ELSE {DefaultModel})
             /\ d_core' \in (IF res = "UNSAT" THEN UnsatCores(pre.assertions)
                             ELSE {{}})
             /\ checked' = TRUE
             /\ op' = [Call("check_sat", "ok", s_results(res), "", 0,
                            IF checked THEN 1 ELSE 0)
                       EXCEPT !.fired = fired, !.iters = pre.iters,
                              !.passes = pre.passes]
             /\ UNCHANGED <<d_levels, d_original_assertions>>
  /\ IF tracking /\ phase = 2 /\ check_no_free_variables(d_assertions)
       THEN phase' = 3 /\ snap' = [snap EXCEPT !.r = d_sat_state']
     ELSE Untrack
  /\ UNCHANGED <<incremental, d_terminator, tracking>>

(* ----------------------------------------------------------------------- *)
(* get_value, get_unsat_core, simplify, configure_terminator               *)
(* ----------------------------------------------------------------------- *)

\* terms whose value is asked for
ValueTerms == {d_bool_const, d_bool_apply}

\* Preprocessor::process: elim_lambda, variable substitution, rewrite
Preprocessor_process(t) ==
  PassProcess("rewrite",
              PassProcess("variable_subst", PassProcess("elim_lambda", t)))

\* SolverEngine::value: the value of a term in the current model
SolverEngine_value(t, m) == IF Holds(t, m) THEN d_true ELSE mk_false

\* SolvingContext::get_value
SolvingContext_get_value(t, m) == SolverEngine_value(Preprocessor_process(t), m)

\* Bitwuzla::get_value(term): d_ctx->get_value(*term.d_node) with no check;
\* the only guard is the assert(d_sat_state == Result::SAT) of the context
Bitwuzla_get_value(t) ==
  /\ Alive
  /\ UNCHANGED others
  /\ IF d_sat_state = "SAT"
       THEN LET v == SolvingContext_get_value(t, d_model)
            IN op' = Call("get_value", "ok", v.sym, v.kind, 0, 1)
     ELSE \E o \in AssertFailed :
            op' = Call("get_value", o, "none", "", 0, 0)
  /\ Untrack
  /\ UNCHANGED <<incremental, d_terminator, tracking>>
  /\ UNCHANGED ctx

\* SolvingContext::get_unsat_core: the engine's core in terms of the
\* original assertions
SolvingContext_get_unsat_core == {d_original_assertions[i].node : i \in d_core}

\* Bitwuzla::get_unsat_core: "not implemented yet", returns {}
Bitwuzla_get_unsat_core_result == {}

Bitwuzla_get_unsat_core ==
  /\ Alive
  /\ UNCHANGED others
  /\ op' = Call("get_unsat_core", "ok", "none", "",
                Cardinality(Bitwuzla_get_unsat_core_result), 0)
  /\ Untrack
  /\ UNCHANGED <<incremental, d_terminator, tracking>>
  /\ UNCHANGED ctx

\* Bitwuzla::simplify: "not implemented yet", returns Result::UNKNOWN
Bitwuzla_simplify_result == "UNKNOWN"

Bitwuzla_simplify ==
  /\ Alive
  /\ UNCHANGED others
  /\ op' = Call("simplify", "ok", Bitwuzla_simplify_result, "", 0, 0)
  /\ Untrack
  /\ UNCHANGED <<incremental, d_terminator, tracking>>
  /\ UNCHANGED ctx

\* what a connected terminator answers; "none" disconnects
Terminators == {"none", "true", "false"}

\* Bitwuzla::configure_terminator
Bitwuzla_configure_terminator(t) ==
  /\ Alive
  /\ UNCHANGED others
  /\ t # d_terminator
  /\ d_terminator' = t
  /\ op' = Call("configure_terminator", "ok", "none", t, 0, 0)
  /\ Untrack
  /\ UNCHANGED <<incremental, tracking>>
  /\ UNCHANGED ctx

(* ----------------------------------------------------------------------- *)
(* The instance                                                            *)
(* ----------------------------------------------------------------------- *)

Next ==
  \/ \E n \in 0..MaxPush : Bitwuzla_push(n)
  \/ \E n \in 0..MaxPush : Bitwuzla_pop(n)
  \/ \E t \in BoolTerms \cup BadTerms : Bitwuzla_assert_formula(t)
  \/ \E polled \in BOOLEAN : Bitwuzla_check_sat(polled)
  \/ \E t \in ValueTerms : Bitwuzla_get_value(t)
  \/ Bitwuzla_get_unsat_core
  \/ Bitwuzla_simplify
  \/ \E t \in Terminators : Bitwuzla_configure_terminator(t)

Spec == Init /\ [][Next]_vars

SpecIso == InitIso /\ [][Next]_vars

(* ----------------------------------------------------------------------- *)
(* Function solver and the refinement loop of solve()                      *)
(* ----------------------------------------------------------------------- *)

\* largest number of APPLY terms registered with the function solver
MaxApplies == 2

fun_f == Node("CONSTANT", "Fun", "f", <<>>)

fun_g == Node("CONSTANT", "Fun", "g", <<>>)

bv_x == Node("CONSTANT", "BV1", "x", <<>>)

bv_y == Node("CONSTANT", "BV1", "y", <<>>)

mk_apply(f, a) == Node("APPLY", "BV1", "", <<f, a>>)

mk_implies(a, b) == Node("IMPLIES", "Bool", "", <<a, b>>)

ApplyTerms == {mk_apply(fun_f, bv_x), mk_apply(fun_f, bv_y), mk_apply(fun_g, bv_x)}

\* x = y, and f(x) # f(y)
ConstraintTerms ==
  {mk_equal(bv_x, bv_y),
   mk_not(mk_equal(mk_apply(fun_f, bv_x), mk_apply(fun_f, bv_y)))}

Range(seq) == {seq[i] : i \in DOMAIN seq}

\* the APPLY terms below a term
RECURSIVE AppliesOf(_)
AppliesOf(t) ==
  (IF t.kind = "APPLY" THEN {t} ELSE {})
  \cup UNION {AppliesOf(t.ch[i]) : i \in DOMAIN t.ch}

\* the SAT solver's assignments: a bit for every argument symbol and, the
\* applications being abstracted by fresh symbols, a bit for every APPLY
BvModels == [arg : [{"x", "y"} -> 0..1], app : [ApplyTerms -> 0..1]]

ZeroBvModel == [arg |-> [a \in {"x", "y"} |-> 0], app |-> [t \in ApplyTerms |-> 0]]

\* SolverState::value: the value of a term in the current assignment
RECURSIVE SolverState_value(_, _)
SolverState_value(t, m) ==
  LET v(i) == SolverState_value(t.ch[i], m)
  IN CASE t.kind = "APPLY"    -> m.app[t]
       [] t.kind = "CONSTANT" -> m.arg[t.sym]
       [] t.kind = "EQUAL"    -> IF v(1) = v(2) THEN 1 ELSE 0
       [] t.kind = "NOT"      -> 1 - v(1)
       [] t.kind = "AND"      -> IF v(1) = 1 /\ v(2) = 1 THEN 1 ELSE 0
       [] t.kind = "IMPLIES"  -> IF v(1) = 1 /\ v(2) = 0 THEN 0 ELSE 1
       [] OTHER               -> 0

\* an Apply that does not read the application's own value
Apply_value_blind(apply, m) ==
  [apply  |-> apply,
   values |-> [i \in 1..(Len(apply.ch) - 1) |->
                 SolverState_value(apply.ch[i + 1], m)],
   value  |-> 0]

\* FunSolver::Apply::Apply: argument values and value, read when built
Apply(apply, m) ==
  [apply  |-> apply,
   values |-> [i \in 1..(Len(apply.ch) - 1) |->
                 SolverState_value(apply.ch[i + 1], m)],
   value  |-> SolverState_value(apply, m)]

\* utils::mk_nary(Kind::AND, premise)
RECURSIVE mk_nary_and(_)
mk_nary_and(premise) ==
  IF Len(premise) = 1 THEN premise[1]
  ELSE Node("AND", "Bool", "", <<premise[1], mk_nary_and(Tail(premise))>>)

\* a lemma whose premise and conclusion compare b with itself
trivial_lemma(a, b) ==
  {mk_implies(mk_nary_and([i \in 1..(Len(b.ch) - 1) |->
                             mk_equal(b.ch[i + 1], b.ch[i + 1])]),
              mk_equal(b, b))}

\* a solver that sends no lemma
no_lemma(a, b) == {}

\* a lemma without its premise: a = b
premise_free_lemma(a, b) == {mk_equal(a, b)}

\* FunSolver::add_function_congruence_lemma: the lemma sent to the solver
\* state, (a[1] = b[1] /\ ... /\ a[n] = b[n]) => a = b
add_function_congruence_lemma(a, b) ==
  {mk_implies(mk_nary_and([i \in 1..(Len(a.ch) - 1) |->
                             mk_equal(a.ch[i + 1], b.ch[i + 1])]),
              mk_equal(a, b))}

\* FunSolver::check: the loop over d_applies. An application whose argument
\* values are already in its function's model is compared with the one
\* found there, and a lemma is sent when their values differ.
RECURSIVE FunSolver_check_loop(_, _, _, _, _)
FunSolver_check_loop(i, applies, m, fun_models, lemmas) ==
  IF i > Len(applies) THEN [fun_models |-> fun_models, lemmas |-> lemmas]
  ELSE LET apply == applies[i]
           app   == Apply(apply, m)
           found == {e \in fun_models :
                       e.apply.ch[1] = apply.ch[1] /\ e.values = app.values}
       IN IF found = {}
            THEN FunSolver_check_loop(i + 1, applies, m,
                                      fun_models \cup {app}, lemmas)
          ELSE LET it == CHOOSE e \in found : TRUE
               IN FunSolver_check_loop(
                    i + 1, applies, m, fun_models,
                    IF it.value # app.value
                      THEN lemmas \cup
                           add_function_congruence_lemma(apply, it.apply)
                    ELSE lemmas)

FunSolver_check(applies, m) == FunSolver_check_loop(1, applies, m, {}, {})

\* FunSolver::register_term for every APPLY of the input not yet registered
RECURSIVE FunSolver_register_terms(_, _)
FunSolver_register_terms(applies, terms) ==
  IF terms = <<>> THEN applies
  ELSE FunSolver_register_terms(
         IF Head(terms) \in Range(applies) THEN applies
         ELSE Append(applies, Head(terms)),
         Tail(terms))

\* the assignments the SAT solver can answer with: they satisfy the
\* constraints and the lemmas; applications that are not part of the input
\* are left at 0
BvModelsOf(constraints, lemmas, terms) ==
  {m \in BvModels :
     /\ \A c \in constraints \cup lemmas : SolverState_value(c, m) = 1
     /\ \A t \in ApplyTerms \ Range(terms) : m.app[t] = 0}

\* sequences of distinct APPLY terms
TermSeqs ==
  {q \in UNION {[1..n -> ApplyTerms] : n \in 0..MaxApplies} :
     \A i, j \in DOMAIN q : i # j => q[i] # q[j]}

InitEngine ==
  /\ InitCtx
  /\ incremental
  /\ tracking = FALSE
  /\ d_engine_state = "IDLE"
  /\ d_constraints \in SUBSET ConstraintTerms
  /\ d_terms \in TermSeqs
  /\ UNION {AppliesOf(c) : c \in d_constraints} \subseteq Range(d_terms)
  /\ d_applies = <<>>
  /\ d_fun_models = {}
  /\ d_lemmas = {}
  /\ d_bv_model = ZeroBvModel
  /\ d_engine_result = "UNKNOWN"
  /\ OptionsIdle
  /\ CApiIdle
  /\ LaterIdle

\* SolvingContext::solve is entered: preprocess() runs first
SolvingContext_solve ==
  /\ d_engine_state = "IDLE"
  /\ d_engine_state' = "PREPROCESSING"
  /\ UNCHANGED <<d_constraints, d_terms, d_applies, d_fun_models, d_lemmas,
                 d_bv_model, d_engine_result>>
  /\ UNCHANGED engine_frame

\* preprocess() has returned, d_solver_engine.solve() starts to encode
SolverEngine_process_assertions ==
  /\ d_engine_state = "PREPROCESSING"
  /\ d_engine_state' = "BIT_BLASTING"
  /\ UNCHANGED <<d_constraints, d_terms, d_applies, d_fun_models, d_lemmas,
                 d_bv_model, d_engine_result>>
  /\ UNCHANGED engine_frame

\* the assertions are bit-blasted; their applications are registered
SolverEngine_bitblast ==
  /\ d_engine_state = "BIT_BLASTING"
  /\ d_engine_state' = "SAT_SOLVING"
  /\ d_applies' = FunSolver_register_terms(d_applies, d_terms)
  /\ UNCHANGED <<d_constraints, d_terms, d_fun_models, d_lemmas, d_bv_model,
                 d_engine_result>>
  /\ UNCHANGED engine_frame

\* which state follows an answer of the SAT solver
AfterSat(res) == IF res = "SAT" THEN "CONGRUENCE_CHECK" ELSE "IDLE"

\* one SAT round
SolverEngine_sat(polled) ==
  /\ d_engine_state = "SAT_SOLVING"
  /\ polled => d_terminator # "none"
  /\ LET models == BvModelsOf(d_constraints, d_lemmas, d_terms)
         fired  == polled /\ d_terminator = "true"
         res    == Kissat_solve(kissat_solve(models, fired))
     IN /\ d_engine_result' = res
        /\ d_bv_model' \in (IF res = "SAT" THEN models ELSE {d_bv_model})
        /\ d_engine_state' = AfterSat(res)
  /\ UNCHANGED <<d_constraints, d_terms, d_applies, d_fun_models, d_lemmas>>
  /\ UNCHANGED engine_frame

\* the congruence check on the SAT solver's model: FunSolver::check, and
\* another SAT round when it sent a lemma
SolverEngine_check ==
  /\ d_engine_state = "CONGRUENCE_CHECK"
  /\ LET r == FunSolver_check(d_applies, d_bv_model)
     IN /\ d_fun_models' = r.fun_models
        /\ d_lemmas' = d_lemmas \cup r.lemmas
        /\ d_engine_state' = IF r.lemmas = {} THEN "IDLE" ELSE "SAT_SOLVING"
  /\ UNCHANGED <<d_constraints, d_terms, d_applies, d_bv_model,
                 d_engine_result>>
  /\ UNCHANGED engine_frame

\* the steps of a running solve()
EngineRun ==
  \/ SolverEngine_process_assertions
  \/ SolverEngine_bitblast
  \/ \E polled \in BOOLEAN : SolverEngine_sat(polled)
  \/ SolverEngine_check

NextEngine ==
  \/ SolvingContext_solve
  \/ SolverEngine_process_assertions
  \/ SolverEngine_bitblast
  \/ \E polled \in BOOLEAN : SolverEngine_sat(polled)
  \/ SolverEngine_check
  \/ \E t \in Terminators :
       d_engine_state = "IDLE" /\ Bitwuzla_configure_terminator(t)

SpecEngine == InitEngine /\ [][NextEngine]_vars

\* a solve() that was entered keeps running: the code is sequential
SpecEngineLive == InitEngine /\ [][NextEngine]_vars /\ WF_vars(EngineRun)

(* ----------------------------------------------------------------------- *)
(* Options: the API's Options object and the copy an instance holds         *)
(* ----------------------------------------------------------------------- *)

\* option::Options::VERBOSITY_MAX
VERBOSITY_MAX == 4

\* the values passed to set(Option, uint64_t): in range, and one past it
NumericValues == {0, 1, VERBOSITY_MAX, VERBOSITY_MAX + 1}

\* the modes of BV_SOLVER
BvSolverModes == {"bitblast", "prop"}

OptionValues ==
  [incremental : BOOLEAN, verbosity : NumericValues, bv_solver : BvSolverModes]

\* OptionBool::set: d_value = value
OptionBool_set(d_value, value) == value

\* OptionNumeric::set: d_value = value, whatever d_min and d_max are
OptionNumeric_set(d_value, value) == value

\* Options::set(Option, uint64_t): no check, the value goes to the option
Options_set_option_numeric(o, option, value) ==
  IF option = "VERBOSITY"
  THEN [o EXCEPT !.verbosity = OptionNumeric_set(@, value)]
  ELSE [o EXCEPT !.incremental = OptionBool_set(@, value # 0)]

\* Options::set(Option, const std::string &mode), for a mode of the option
Options_set_option_enum(o, option, mode) == [o EXCEPT !.bv_solver = mode]

\* an Env that kept a reference to the caller's Options object
Env_Env_by_reference(objs, from) == [objects |-> objs, options |-> from]

\* Env::Env: the member `const option::Options d_options` is initialised
\* from the reference passed down by Bitwuzla::Bitwuzla and
\* SolvingContext::SolvingContext, which copies the object
Env_Env(objs, from) ==
  [objects |-> [objs EXCEPT !.env = objs[from]], options |-> "env"]

\* opts.set(option, value)
Options_set(option, value) ==
  /\ objects' =
       [objects EXCEPT !.api = Options_set_option_numeric(@, option, value)]
  /\ opt_call' = OptCall("set", option, value, "ok", objects.api,
                         DefaultOptions)
  /\ UNCHANGED <<d_env_options, constructed_with>>
  /\ UNCHANGED options_frame

\* opts.set(Option::BV_SOLVER, mode)
Options_set_mode(mode) ==
  /\ objects' =
       [objects EXCEPT !.api = Options_set_option_enum(@, "BV_SOLVER", mode)]
  /\ opt_call' = OptCall("set_mode", "BV_SOLVER", 0, "ok", objects.api,
                         DefaultOptions)
  /\ UNCHANGED <<d_env_options, constructed_with>>
  /\ UNCHANGED options_frame

\* Bitwuzla bitwuzla(opts)
Bitwuzla_Bitwuzla ==
  /\ d_env_options = "none"
  /\ LET e == Env_Env(objects, "api")
     IN /\ objects' = e.objects
        /\ d_env_options' = e.options
  /\ constructed_with' = objects.api
  /\ opt_call' = OptCall("Bitwuzla", "", 0, "ok", objects.api, objects.api)
  /\ UNCHANGED options_frame

\* SolvingContext::options, read by an operation of the instance
SolvingContext_options ==
  /\ d_env_options # "none"
  /\ opt_call' = OptCall("options", "", 0, "ok", objects.api,
                         objects[d_env_options])
  /\ UNCHANGED <<objects, d_env_options, constructed_with>>
  /\ UNCHANGED options_frame

InitOptions ==
  /\ InitCtx
  /\ ~incremental
  /\ tracking = FALSE
  /\ EngineIdle
  /\ OptionsIdle
  /\ CApiIdle
  /\ LaterIdle

NextOptions ==
  \/ \E option \in {"INCREMENTAL", "VERBOSITY"}, value \in NumericValues :
       Options_set(option, value)
  \/ \E mode \in BvSolverModes : Options_set_mode(mode)
  \/ Bitwuzla_Bitwuzla
  \/ SolvingContext_options

SpecOptions == InitOptions /\ [][NextOptions]_vars

(* ----------------------------------------------------------------------- *)
(* Node manager (unique tables) and the handles of the C API               *)
(* ----------------------------------------------------------------------- *)

\* largest number of nodes in the manager's table
MaxNodes == 3

\* largest number of types in the manager's table
MaxTypes == 2

\* largest bit-vector width
MaxWidth == 2

\* largest external reference count explored
MaxRefs == 2

BoolType == [family |-> "bool", w |-> 0]

BvType(w) == [family |-> "bv", w |-> w]

\* what identifies a node: kind, type, child ids, indices, symbol or value
NodeData(kind, type, ch, idx, sym) ==
  [kind |-> kind, type |-> type, ch |-> ch, idx |-> idx, sym |-> sym]

Find(table, key) == {i \in DOMAIN table : table[i] = key}

\* a table that makes a new entry for every request
insert_fresh(table, key) ==
  [table |-> Append(table, key), id |-> Len(table) + 1, existed |-> FALSE]

\* the unique table: the entry with this key, made if there is none
find_or_insert(table, key) ==
  IF Find(table, key) # {}
    THEN [table |-> table, id |-> CHOOSE i \in Find(table, key) : TRUE,
          existed |-> TRUE]
  ELSE [table |-> Append(table, key), id |-> Len(table) + 1,
        existed |-> FALSE]

\* the manager: its two tables
NM == [nodes |-> d_node_table, types |-> d_type_table]

\* NodeManager::mk_bool_type / mk_bv_type
NodeManager_mk_type(nm, key) ==
  LET r == find_or_insert(nm.types, key)
  IN [nodes |-> nm.nodes, types |-> r.table, id |-> r.id,
      existed |-> r.existed, key |-> key]

\* the type the manager computes for a node of this kind
NodeManager_compute_type(kind, idx) ==
  IF kind = "BV_EXTRACT" THEN BvType(idx[1] - idx[2] + 1) ELSE BoolType

\* NodeManager::mk_node(kind, children, indices)
NodeManager_mk_node(nm, kind, ch, idx) ==
  LET t   == NodeManager_mk_type(nm, NodeManager_compute_type(kind, idx))
      key == NodeData(kind, t.id, ch, idx, "")
      r   == find_or_insert(nm.nodes, key)
  IN [nodes |-> r.table, types |-> t.types, id |-> r.id,
      existed |-> r.existed, key |-> key]

\* NodeManager::mk_value(bool)
NodeManager_mk_value(nm, b) ==
  LET t   == NodeManager_mk_type(nm, BoolType)
      key == NodeData("VALUE", t.id, <<>>, <<>>,
                      IF b THEN "true" ELSE "false")
      r   == find_or_insert(nm.nodes, key)
  IN [nodes |-> r.table, types |-> t.types, id |-> r.id,
      existed |-> r.existed, key |-> key]

\* NodeManager::mk_const(type, symbol): a new constant at every call
NodeManager_mk_const(nm, type, sym) ==
  LET key == NodeData("CONSTANT", type, <<>>, <<>>, sym)
  IN [nodes |-> Append(nm.nodes, key), types |-> nm.types,
      id |-> Len(nm.nodes) + 1, existed |-> FALSE, key |-> key]

\* a mk_term that builds a node of its own and asks no table
mk_term_unshared(nm, kind, args, indices) ==
  LET t   == NodeManager_mk_type(nm, NodeManager_compute_type(kind, indices))
      key == NodeData(kind, t.id, args, indices, "")
  IN [nodes |-> Append(nm.nodes, key), types |-> t.types,
      id |-> Len(nm.nodes) + 1, existed |-> FALSE, key |-> key]

\* bitwuzla::mk_term(kind, args, indices): NodeManager::get().mk_node
mk_term(nm, kind, args, indices) == NodeManager_mk_node(nm, kind, args, indices)

\* bitwuzla::mk_bv_sort(size): NodeManager::get().mk_bv_type
mk_bv_sort(nm, size) == NodeManager_mk_type(nm, BvType(size))

\* export_sort: the first handle enters the map with count 1, a further one
\* adds 1
export_sort(map, sort_id) ==
  IF sort_id \in DOMAIN map THEN [map EXCEPT ![sort_id] = @ + 1]
  ELSE [i \in DOMAIN map \cup {sort_id} |->
          IF i = sort_id THEN 1 ELSE map[i]]

\* export_term
export_term(map, term_id) ==
  IF term_id \in DOMAIN map THEN [map EXCEPT ![term_id] = @ + 1]
  ELSE [i \in DOMAIN map \cup {term_id} |->
          IF i = term_id THEN 1 ELSE map[i]]

\* import_term: the term behind an id, as the solving context sees it
RECURSIVE import_term(_, _)
import_term(nm, term_id) ==
  LET d == nm.nodes[term_id]
  IN Node(d.kind,
          IF nm.types[d.type].family = "bool" THEN "Bool" ELSE "BV",
          d.sym,
          [i \in DOMAIN d.ch |-> import_term(nm, d.ch[i])])

\* the process has not gone through BITWUZLA_ABORT or a failed assert()
CApiAlive == Alive /\ capi_call.outcome # "abort"

\* room for another handle to this id
Room(map, id) == id \in DOMAIN map => map[id] < MaxRefs

\* BITWUZLA_CHECK failed: the exception is caught and the process aborted
CApiAbort(name) ==
  /\ capi_call' = CCall(name, "abort", 0, FALSE, NoKey)
  /\ UNCHANGED <<d_node_table, d_type_table, term_map, sort_map, instance>>

\* a sort came back from the manager and is exported
CApiSort(name, r) ==
  /\ Len(r.types) <= MaxTypes
  /\ Room(sort_map, r.id)
  /\ d_type_table' = r.types
  /\ sort_map' = export_sort(sort_map, r.id)
  /\ capi_call' = CCall(name, "ok", r.id, r.existed, r.key)
  /\ UNCHANGED <<d_node_table, term_map, instance>>

\* a term came back from the manager and is exported
CApiTerm(name, r) ==
  /\ Len(r.nodes) <= MaxNodes
  /\ Len(r.types) <= MaxTypes
  /\ Room(term_map, r.id)
  /\ d_node_table' = r.nodes
  /\ d_type_table' = r.types
  /\ term_map' = export_term(term_map, r.id)
  /\ capi_call' = CCall(name, "ok", r.id, r.existed, r.key)
  /\ UNCHANGED <<sort_map, instance>>

bitwuzla_mk_bool_sort ==
  /\ CApiAlive
  /\ CApiSort("mk_bool_sort", NodeManager_mk_type(NM, BoolType))
  /\ UNCHANGED capi_frame

bitwuzla_mk_bv_sort(size) ==
  /\ CApiAlive
  /\ CApiSort("mk_bv_sort", mk_bv_sort(NM, size))
  /\ UNCHANGED capi_frame

bitwuzla_mk_true ==
  /\ CApiAlive
  /\ CApiTerm("mk_true", NodeManager_mk_value(NM, TRUE))
  /\ UNCHANGED capi_frame

\* the symbol of the constants of a type
SymbolOf(type) == IF type.family = "bool" THEN "p" ELSE "b"

\* bitwuzla_mk_const(sort, symbol); every symbol names one constant
bitwuzla_mk_const(sort) ==
  /\ CApiAlive
  /\ IF sort \notin DOMAIN sort_map THEN CApiAbort("mk_const")
     ELSE LET sym == SymbolOf(d_type_table[sort])
          IN /\ \A i \in DOMAIN d_node_table : d_node_table[i].sym # sym
             /\ CApiTerm("mk_const", NodeManager_mk_const(NM, sort, sym))
  /\ UNCHANGED capi_frame

TypeOf(term_id) == d_type_table[d_node_table[term_id].type]

\* bitwuzla_mk_term1(kind, arg), for the kind NOT and a Boolean argument
bitwuzla_mk_term1(arg) ==
  /\ CApiAlive
  /\ IF arg \notin DOMAIN term_map THEN CApiAbort("mk_term")
     ELSE /\ TypeOf(arg) = BoolType
          /\ CApiTerm("mk_term",
                      mk_term(NM, "NOT", <<arg>>, <<>>))
  /\ UNCHANGED capi_frame

\* bitwuzla_mk_term1_indexed2(kind, arg, idx0, idx1), for BV_EXTRACT and a
\* bit-vector argument wide enough
bitwuzla_mk_term1_indexed2(arg, idx0, idx1) ==
  /\ CApiAlive
  /\ IF arg \notin DOMAIN term_map THEN CApiAbort("mk_term")
     ELSE /\ TypeOf(arg).family = "bv"
          /\ idx1 <= idx0 /\ idx0 < TypeOf(arg).w
          /\ CApiTerm("mk_term",
                      mk_term(NM, "BV_EXTRACT", <<arg>>, <<idx0, idx1>>))
  /\ UNCHANGED capi_frame

\* bitwuzla_term_get_sort(term)
bitwuzla_term_get_sort(term) ==
  /\ CApiAlive
  /\ IF term \notin DOMAIN term_map THEN CApiAbort("term_get_sort")
     ELSE LET id == d_node_table[term].type
          IN /\ Room(sort_map, id)
             /\ sort_map' = export_sort(sort_map, id)
             /\ capi_call' = CCall("term_get_sort", "ok", id, TRUE,
                                   d_type_table[id])
             /\ UNCHANGED <<d_node_table, d_type_table, term_map, instance>>
  /\ UNCHANGED capi_frame

\* bitwuzla_assert(bitwuzla, term), for an id that passes the check
bitwuzla_assert(term) ==
  /\ CApiAlive
  /\ instance = "live"
  /\ term \in DOMAIN term_map
  /\ Bitwuzla_assert_formula(import_term(NM, term))

\* bitwuzla_push(bitwuzla, nlevels)
bitwuzla_push(nlevels) ==
  /\ CApiAlive
  /\ instance = "live"
  /\ Bitwuzla_push(nlevels)

\* bitwuzla_check_sat(bitwuzla)
bitwuzla_check_sat ==
  /\ CApiAlive
  /\ instance = "live"
  /\ Bitwuzla_check_sat(FALSE)

\* bitwuzla_reset(bitwuzla): Bitwuzla::reset() has an empty body
bitwuzla_reset ==
  /\ CApiAlive
  /\ instance = "live"
  /\ capi_call' = CCall("bitwuzla_reset", "ok", 0, FALSE, NoKey)
  /\ UNCHANGED <<d_node_table, d_type_table, term_map, sort_map, instance>>
  /\ UNCHANGED capi_frame

\* bitwuzla_delete(bitwuzla): the instance goes, the maps are static
bitwuzla_delete ==
  /\ CApiAlive
  /\ instance = "live"
  /\ instance' = "deleted"
  /\ capi_call' = CCall("bitwuzla_delete", "ok", 0, FALSE, NoKey)
  /\ UNCHANGED <<d_node_table, d_type_table, term_map, sort_map>>
  /\ UNCHANGED capi_frame

InitCApi ==
  /\ InitCtx
  /\ incremental
  /\ tracking = FALSE
  /\ EngineIdle
  /\ OptionsIdle
  /\ CApiIdle
  /\ LaterIdle

\* the calls that make terms and sorts and hand out their ids
NextTerms ==
  \/ bitwuzla_mk_bool_sort
  \/ \E size \in 1..MaxWidth : bitwuzla_mk_bv_sort(size)
  \/ bitwuzla_mk_true
  \/ \E sort \in 1..MaxTypes : bitwuzla_mk_const(sort)
  \/ \E arg \in 1..MaxNodes : bitwuzla_mk_term1(arg)
  \/ \E arg \in 1..MaxNodes, idx0, idx1 \in 0..(MaxWidth - 1) :
       bitwuzla_mk_term1_indexed2(arg, idx0, idx1)
  \/ \E term \in 1..MaxNodes : bitwuzla_term_get_sort(term)
  \/ bitwuzla_reset
  \/ bitwuzla_delete

SpecTerms == InitCApi /\ [][NextTerms]_vars

\* Boolean terms, and an instance they are asserted on
NextCApi ==
  \/ bitwuzla_mk_bool_sort
  \/ bitwuzla_mk_true
  \/ \E sort \in 1..MaxTypes : bitwuzla_mk_const(sort)
  \/ \E arg \in 1..MaxNodes : bitwuzla_mk_term1(arg)
  \/ \E term \in 1..MaxNodes : bitwuzla_assert(term)
  \/ bitwuzla_push(1)
  \/ bitwuzla_check_sat
  \/ bitwuzla_reset

SpecCApi == InitCApi /\ [][NextCApi]_vars

(* ----------------------------------------------------------------------- *)
(* The command line front end: main                                        *)
(* ----------------------------------------------------------------------- *)

MaxArgs == 3

EXIT_SUCCESS == 0

EXIT_FAILURE == 1

\* std::string::npos, as the representative of 2^64 - 1 modulo 2^64
Npos == -1

\* the arguments tried: their size(), and where find() sees the suffixes
ArgTable ==
  [text \in {"-h", "-c", "-V", "a.smt2", "b.btor", "-v", "--xx", "--bogus"} |->
     CASE text = "a.smt2" -> [size |-> 6, smt2 |-> 1, btor |-> Npos]
       [] text = "b.btor" -> [size |-> 6, smt2 |-> Npos, btor |-> 1]
       [] text = "--xx" -> [size |-> 4, smt2 |-> Npos, btor |-> Npos]
       [] text = "--bogus" -> [size |-> 7, smt2 |-> Npos, btor |-> Npos]
       [] OTHER -> [size |-> 2, smt2 |-> Npos, btor |-> Npos]]

Args == DOMAIN ArgTable

\* the command lines given to main
ArgVectors == UNION {[1..n -> Args] : n \in 0..MaxArgs}

\* what the input file holds: a script whose last check-sat is sat, unsat or
\* unknown, a script with no check-sat, or text the parser rejects
FileContents == {"sat", "unsat", "unknown", "no_check_sat", "syntax_error"}

\* the files that exist
Files == {"a.smt2"}

\* arg.size() - 5 in size_t arithmetic, as the representative modulo 2^64
\* that Npos uses
size_minus_5(arg) == ArgTable[arg].size - 5

\* main's test for an input file:
\* arg.find(".smt2") == arg.size() - 5 || arg.find(".btor") == arg.size() - 5
is_input_file(arg) ==
  \/ ArgTable[arg].smt2 = size_minus_5(arg)
  \/ ArgTable[arg].btor = size_minus_5(arg)

\* the options the library knows
KnownOptions == {"-v"}

\* Options::set(args): a bitwuzla::Exception on an argument it does not know
Options_set_args_throws(args) ==
  \E k \in 1..Len(args) : args[k] \notin KnownOptions

\* bitwuzla::parse(options, infile_name): what it can do.  It throws on a
\* file it cannot open (on the empty name it throws, or it reads the
\* standard input), returns the error message of a script it rejects, and
\* the empty string otherwise
parse(name, content) ==
  LET read == IF content = "syntax_error" THEN "error_msg" ELSE "empty"
  IN CASE name = "" -> {"throws", read}
       [] name \in Files -> {read}
       [] OTHER -> {"throws"}

\* one iteration of main's loop over argv
main_loop ==
  /\ main_pc = "loop"
  /\ main_i <= Len(argv)
  /\ LET arg == argv[main_i]
     IN IF arg \in {"-h", "-c", "-V"}
        THEN /\ main_pc' = (CASE arg = "-h" -> "help"
                              [] arg = "-c" -> "copyright"
                              [] OTHER -> "version")
             /\ exit_status' = Exit(EXIT_SUCCESS)
             /\ UNCHANGED <<main_i, main_args, filename>>
        ELSE /\ IF is_input_file(arg)
                THEN filename' = arg /\ UNCHANGED main_args
                ELSE main_args' = Append(main_args, arg) /\ UNCHANGED filename
             /\ main_i' = main_i + 1
             /\ UNCHANGED <<main_pc, exit_status>>
  /\ UNCHANGED <<argv, infile>>
  /\ UNCHANGED cli_frame

\* try { options.set(args); } catch (const bitwuzla::Exception& e)
main_set_options ==
  /\ main_pc = "loop"
  /\ main_i > Len(argv)
  /\ IF Options_set_args_throws(main_args)
     THEN main_pc' = "option_error" /\ exit_status' = Exit(EXIT_FAILURE)
     ELSE main_pc' = "parse" /\ UNCHANGED exit_status
  /\ UNCHANGED <<argv, infile, main_i, main_args, filename>>
  /\ UNCHANGED cli_frame

\* std::string err_msg = bitwuzla::parse(options, filename), and the exit.
\* No handler is around the call: an exception ends the process in
\* std::terminate
main_parse ==
  /\ main_pc = "parse"
  /\ \E r \in parse(filename, infile) :
       CASE r = "throws" ->
              main_pc' = "terminate" /\ exit_status' = Signal("SIGABRT")
         [] r = "empty" ->
              main_pc' = "parsed" /\ exit_status' = Exit(EXIT_SUCCESS)
         [] OTHER ->
              main_pc' = "parse_error" /\ exit_status' = Exit(EXIT_FAILURE)
  /\ UNCHANGED <<argv, infile, main_i, main_args, filename>>
  /\ UNCHANGED cli_frame

InitMain ==
  /\ InitCtx
  /\ ~incremental
  /\ tracking = FALSE
  /\ EngineIdle
  /\ OptionsIdle
  /\ CApiIdle
  /\ OverflowIdle
  /\ PPIdle
  /\ ElimIdle
  /\ PrinterIdle
  /\ TimerIdle
  /\ argv \in ArgVectors
  /\ infile \in FileContents
  /\ main_i = 1
  /\ main_args = <<>>
  /\ filename = ""
  /\ main_pc = "loop"
  /\ exit_status = Running

NextMain ==
  \/ main_loop
  \/ main_set_options
  \/ main_parse

SpecMain == InitMain /\ [][NextMain]_vars

(* ----------------------------------------------------------------------- *)
(* Overflow predicates on values (test_rewriter_bv_overflow.cpp)           *)
(* ----------------------------------------------------------------------- *)

TEST_OVERFLOW_LOW == 1

TEST_OVERFLOW_HIGH == 4

RECURSIVE Pow2(_)
Pow2(n) == IF n = 0 THEN 1 ELSE 2 * Pow2(n - 1)

UnsignedKinds == {"BV_UADDO", "BV_USUBO", "BV_UMULO"}

SignedKinds == {"BV_SADDO", "BV_SSUBO", "BV_SMULO", "BV_SDIVO"}

\* the rewrite levels the tests run with
RewriteLevels == {0, 1}

\* u_overflow_test: i, j in 0 .. 2^num_bits - 1
u_overflow_cases ==
  {[kind |-> k, num_bits |-> n, i |-> i, j |-> j, rwl |-> r] :
     k \in UnsignedKinds, n \in TEST_OVERFLOW_LOW..TEST_OVERFLOW_HIGH,
     i \in 0..15, j \in 0..15, r \in RewriteLevels}

\* s_overflow_test: i, j in -2^(num_bits-1) .. 2^(num_bits-1) - 1, and
\* j # 0 where exclude_second_zero is set (sdivo)
s_overflow_cases ==
  {[kind |-> k, num_bits |-> n, i |-> i, j |-> j, rwl |-> r] :
     k \in SignedKinds, n \in TEST_OVERFLOW_LOW..TEST_OVERFLOW_HIGH,
     i \in -8..7, j \in -8..7, r \in RewriteLevels}

OverflowCases ==
  {c \in u_overflow_cases : c.i < Pow2(c.num_bits) /\ c.j < Pow2(c.num_bits)}
  \cup
  {c \in s_overflow_cases :
     /\ c.i >= -Pow2(c.num_bits - 1) /\ c.i < Pow2(c.num_bits - 1)
     /\ c.j >= -Pow2(c.num_bits - 1) /\ c.j < Pow2(c.num_bits - 1)
     /\ (c.kind = "BV_SDIVO" => c.j # 0)}

\* BitVector::from_ui(size, value): the value in `size` bits
BitVector_from_ui(size, value) == value % Pow2(size)

\* BitVector::from_si(size, value): the two's complement of value in `size`
\* bits
BitVector_from_si(size, value) == value % Pow2(size)

\* bit-vector operations on values of `size` bits
bv_msb(size, a) == a \div Pow2(size - 1)

bv_not(size, a) == Pow2(size) - 1 - a

bv_add(size, a, b) == (a + b) % Pow2(size)

bv_neg(size, a) == (Pow2(size) - a) % Pow2(size)

bv_sub(size, a, b) == bv_add(size, a, bv_neg(size, b))

bv_mul(size, a, b) == (a * b) % Pow2(size)

bv_sext(size, n, a) ==
  IF bv_msb(size, a) = 1 THEN a + (Pow2(size + n) - Pow2(size)) ELSE a

\* the rewriter's elimination of the overflow kinds into operations the
\* bit-blaster has, evaluated on two values
bv_uaddo(size, a, b) == bv_msb(size + 1, bv_add(size + 1, a, b)) = 1

bv_usubo(size, a, b) ==
  bv_msb(size + 1,
         bv_add(size + 1, a, bv_add(size + 1, bv_not(size, b), 1))) = 0

bv_umulo(size, a, b) == bv_mul(2 * size, a, b) \div Pow2(size) # 0

bv_saddo(size, a, b) ==
  LET sa == bv_msb(size, a)
      sb == bv_msb(size, b)
      sr == bv_msb(size, bv_add(size, a, b))
  IN \/ sa = 1 /\ sb = 1 /\ sr = 0
     \/ sa = 0 /\ sb = 0 /\ sr = 1

bv_ssubo(size, a, b) ==
  LET sa == bv_msb(size, a)
      sb == bv_msb(size, b)
      sr == bv_msb(size, bv_sub(size, a, b))
  IN \/ sa = 0 /\ sb = 1 /\ sr = 1
     \/ sa = 1 /\ sb = 0 /\ sr = 0

bv_smulo(size, a, b) ==
  LET mul == bv_mul(2 * size, bv_sext(size, size, a), bv_sext(size, size, b))
      top == mul \div Pow2(size - 1)
  IN top # 0 /\ top # Pow2(size + 1) - 1

bv_sdivo(size, a, b) == a = Pow2(size - 1) /\ b = Pow2(size) - 1

Rewriter_eliminate(kind, size, a, b) ==
  CASE kind = "BV_UADDO" -> bv_uaddo(size, a, b)
    [] kind = "BV_USUBO" -> bv_usubo(size, a, b)
    [] kind = "BV_UMULO" -> bv_umulo(size, a, b)
    [] kind = "BV_SADDO" -> bv_saddo(size, a, b)
    [] kind = "BV_SSUBO" -> bv_ssubo(size, a, b)
    [] kind = "BV_SMULO" -> bv_smulo(size, a, b)
    [] OTHER -> bv_sdivo(size, a, b)

\* values made from the magnitude of i, the sign dropped
test_mk_value_magnitude(c, v) ==
  (IF v < 0 THEN -v ELSE v) % Pow2(c.num_bits)

\* nm.mk_value(BitVector::from_ui / from_si (num_bits, i))
test_mk_value(c, v) ==
  IF c.kind \in UnsignedKinds THEN BitVector_from_ui(c.num_bits, v)
  ELSE BitVector_from_si(c.num_bits, v)

\* nm.mk_node(kind, {val1, val2})
test_mk_node(c) ==
  [kind |-> c.kind, num_bits |-> c.num_bits, val1 |-> test_mk_value(c, c.i),
   val2 |-> test_mk_value(c, c.j)]

\* what the predicate on two values is once preprocessing (rewrite level
\* 1: folded by the rewriter) or bit-blasting (rewrite level 0: unit
\* clauses of a circuit over constants) is through with it
overflow_as_bool(node) ==
  IF Rewriter_eliminate(node.kind, node.num_bits, node.val1, node.val2)
    THEN d_true
  ELSE mk_false

\* ctx.assert_formula(nm.mk_node(kind, {val1, val2})) on the fresh context
ov_assert_formula ==
  /\ ov_pc = "fresh"
  /\ ov_case.kind # "none"
  /\ ov_assertions' = Append(ov_assertions,
                             [node |-> test_mk_node(ov_case), level |-> 0])
  /\ ov_pc' = "asserted"
  /\ UNCHANGED <<ov_case, ov_sat_state>>
  /\ UNCHANGED overflow_frame

\* Result sat_res = ctx.solve(): no terminator is connected to the context
ov_solve ==
  /\ ov_pc = "asserted"
  /\ LET pre == [k \in DOMAIN ov_assertions |->
                   [node |-> overflow_as_bool(ov_assertions[k].node),
                    level |-> ov_assertions[k].level]]
     IN ov_sat_state' = SolverEngine_solve(pre, FALSE)
  /\ ov_pc' = "solved"
  /\ UNCHANGED <<ov_case, ov_assertions>>
  /\ UNCHANGED overflow_frame

InitOverflow ==
  /\ InitCtx
  /\ ~incremental
  /\ tracking = FALSE
  /\ EngineIdle
  /\ OptionsIdle
  /\ CApiIdle
  /\ CliIdle
  /\ PPIdle
  /\ ElimIdle
  /\ PrinterIdle
  /\ TimerIdle
  /\ ov_case \in OverflowCases
  /\ ov_assertions = <<>>
  /\ ov_sat_state = "UNKNOWN"
  /\ ov_pc = "fresh"

NextOverflow ==
  \/ ov_assert_formula
  \/ ov_solve

SpecOverflow == InitOverflow /\ [][NextOverflow]_vars

(* ----------------------------------------------------------------------- *)
(* FunSolver::check on three applications of one function                  *)
(* ----------------------------------------------------------------------- *)

bv_z == Node("CONSTANT", "BV1", "z", <<>>)

\* f(x), f(y), f(z)
CheckApplyTerms ==
  {mk_apply(fun_f, bv_x), mk_apply(fun_f, bv_y), mk_apply(fun_f, bv_z)}

\* d_applies: the applications in the order they were registered
CheckApplySeqs ==
  {q \in UNION {[1..n -> CheckApplyTerms] : n \in 0..3} :
     \A i, j \in DOMAIN q : i # j => q[i] # q[j]}

\* the SAT solver's assignments to x, y, z and to the applications
CheckModels ==
  [arg : [{"x", "y", "z"} -> 0..1], app : [CheckApplyTerms -> 0..1]]

\* the solver engine right after a SAT answer, the check about to run
InitFunCheck ==
  /\ InitCtx
  /\ incremental
  /\ tracking = FALSE
  /\ d_engine_state = "CONGRUENCE_CHECK"
  /\ d_constraints = {}
  /\ d_terms \in CheckApplySeqs
  /\ d_applies = d_terms
  /\ d_fun_models = {}
  /\ d_lemmas = {}
  /\ d_bv_model \in CheckModels
  /\ d_engine_result = "SAT"
  /\ OptionsIdle
  /\ CApiIdle
  /\ LaterIdle

NextFunCheck ==
  \/ SolverEngine_check

SpecFunCheck == InitFunCheck /\ [][NextFunCheck]_vars

(* ----------------------------------------------------------------------- *)
(* The preprocessor step by step: preprocess(), apply(), sync_scope()      *)
(* ----------------------------------------------------------------------- *)

\* the assertions given to the preprocessor
PPTerms == {d_bool_const, d_bool_apply}

\* the settings of the pp_* toggles tried
PPOptionSets ==
  {AllPassesOn,
   [AllPassesOn EXCEPT !.skeleton_preproc = FALSE],
   [flatten_and |-> FALSE, variable_subst |-> FALSE,
    skeleton_preproc |-> FALSE, embedded_constr |-> FALSE,
    contr_ands |-> FALSE, normalize |-> FALSE]}

\* the if (options.pp_...()) around a pass in the loop body of apply()
PassToggled(pass, options) ==
  CASE pass = "flatten_and"      -> options.flatten_and
    [] pass = "variable_subst"   -> options.variable_subst
    [] pass = "skeleton_preproc" -> options.skeleton_preproc
    [] pass = "embedded_constr"  -> options.embedded_constr
    [] pass = "contr_ands"       -> options.contr_ands
    [] pass = "normalize"        -> options.normalize
    [] OTHER                     -> TRUE

\* a loop body that runs the skeleton pass in every iteration
PassRuns_every_iteration(pass, options, skel_done) ==
  PassToggled(pass, options)

\* whether the loop body runs the pass: its toggle, and for the skeleton
\* pass && !skel_done
PassRuns(pass, options, skel_done) ==
  /\ PassToggled(pass, options)
  /\ pass = "skeleton_preproc" => ~skel_done

\* the nodes of the assertion cache
CachedNodes(cache) == {e.node : e \in cache}

\* PreprocessingPass::cache_assertion: the entry goes into the backtrackable
\* cache at the level the preprocessor's manager is at
cache_assertion(cache, node, src, bt) ==
  IF node \in CachedNodes(cache) THEN cache
  ELSE cache \cup {[node |-> node, src |-> src, bt |-> bt]}

\* an elim_lambda pass that processes an assertion and keeps the original
PassElimLambda_apply_keep(i, nodes, cache, src, bt) ==
  [nodes |-> nodes, cache |-> cache]

\* PassElimLambda::apply: the loop over the vector.  An assertion not yet in
\* the cache is processed and replaced, and its processed form cached too
RECURSIVE PassElimLambda_apply(_, _, _, _, _)
PassElimLambda_apply(i, nodes, cache, src, bt) ==
  IF i > Len(nodes) THEN [nodes |-> nodes, cache |-> cache]
  ELSE IF nodes[i] \in CachedNodes(cache)
    THEN PassElimLambda_apply(i + 1, nodes, cache, src, bt)
  ELSE LET processed == PassElimLambda_process(nodes[i])
           c1 == cache_assertion(cache, nodes[i], src, bt)
           c2 == cache_assertion(c1, processed, src, bt)
       IN PassElimLambda_apply(i + 1, [nodes EXCEPT ![i] = processed], c2,
                               src, bt)

\* AssertionVector::replace on every place of the vector: d_modified counts
\* the assertions that were replaced by a different node
num_replaced(old, new) == Cardinality({i \in DOMAIN old : old[i] # new[i]})

\* the nodes of the vector, read from the stack
VecNodes(stack, vec) == [i \in 1..vec.size |-> stack[vec.begin + i].node]

\* the stack with the vector's places replaced
VecReplace(stack, vec, nodes) ==
  [i \in DOMAIN stack |->
     IF i > vec.begin /\ i <= vec.begin + vec.size
       THEN [stack[i] EXCEPT !.node = nodes[i - vec.begin]]
     ELSE stack[i]]

\* a backtrackable container after its manager went back to `levels`
Backtrack_pop_cache(cache, levels) == {e \in cache : e.bt <= levels}

\* a view that moves on by one assertion
set_index_by_one(begin, size) == begin + 1

\* d_assertions.set_index(d_assertions.begin() + assertions.size())
AssertionView_set_index(begin, size) == begin + size

pp_apply_vars == <<pp_pass, pp_vec, pp_modified, pp_skel_done, pp_ran,
                   pp_iterations, pp_done>>

\* SolvingContext::push
pp_push ==
  /\ pp_pc = "idle"
  /\ pp_num_levels < MaxPush
  /\ pp_num_levels' = SolvingContext_push(pp_num_levels)
  /\ pp_op' = PPOp("push", 0)
  /\ UNCHANGED <<pp_options, pp_stack, pp_index, pp_bt_levels, pp_cache,
                 pp_pc, pp_apply_vars>>
  /\ UNCHANGED pp_frame

\* SolvingContext::assert_formula
pp_assert_formula(t) ==
  /\ pp_pc = "idle"
  /\ Len(pp_stack) < MaxAssertions
  /\ pp_stack' = AssertionStack_push_back(pp_stack, t, pp_num_levels)
  /\ pp_op' = PPOp("assert_formula", 0)
  /\ UNCHANGED <<pp_options, pp_index, pp_num_levels, pp_bt_levels, pp_cache,
                 pp_pc, pp_apply_vars>>
  /\ UNCHANGED pp_frame

\* SolvingContext::pop: the global manager pops, the assertion stack and
\* the view go back, and d_pop_callback pops the preprocessor's manager,
\* which takes the entries of its popped levels out of the passes' caches
pp_pop ==
  /\ pp_pc = "idle"
  /\ pp_num_levels > 0
  /\ LET c == SolvingContext_pop([levels |-> pp_num_levels,
                                  assertions |-> pp_stack, orig |-> <<>>,
                                  view |-> pp_index,
                                  pp_levels |-> pp_bt_levels])
         kept == Backtrack_pop_cache(pp_cache, c.pp_levels)
     IN /\ pp_num_levels' = c.levels
        /\ pp_stack' = c.assertions
        /\ pp_index' = c.view
        /\ pp_bt_levels' = c.pp_levels
        /\ pp_cache' = kept
        /\ pp_op' = PPOp("pop", Cardinality(pp_cache \ kept))
  /\ UNCHANGED <<pp_options, pp_pc, pp_apply_vars>>
  /\ UNCHANGED pp_frame

\* Preprocessor::preprocess is entered: it returns at once when the view is
\* empty
Preprocessor_preprocess_enter ==
  /\ pp_pc = "idle"
  /\ IF pp_index = Len(pp_stack)
       THEN pp_pc' = "idle" /\ pp_op' = PPOp("preprocess", 0)
     ELSE pp_pc' = "level" /\ pp_op' = PPOp("enter", 0)
  /\ pp_done' = <<>>
  /\ UNCHANGED <<pp_options, pp_stack, pp_index, pp_num_levels, pp_bt_levels,
                 pp_cache, pp_pass, pp_vec, pp_modified, pp_skel_done, pp_ran,
                 pp_iterations>>
  /\ UNCHANGED pp_frame

\* the head of while (!d_assertions.empty()): sync_scope(level), the vector
\* of the first pending level, and the entry of apply(); after the loop
\* sync_scope(d_global_backtrack_mgr.num_levels()) and the return
Preprocessor_preprocess_level ==
  /\ pp_pc = "level"
  /\ IF pp_index = Len(pp_stack)
       THEN /\ pp_bt_levels' = Preprocessor_sync_scope(pp_bt_levels,
                                                       pp_num_levels)
            /\ pp_pc' = "idle"
            /\ pp_op' = PPOp("preprocess", 0)
            /\ UNCHANGED <<pp_vec, pp_skel_done, pp_iterations>>
     ELSE LET level == pp_stack[pp_index + 1].level
          IN /\ pp_bt_levels' = Preprocessor_sync_scope(pp_bt_levels, level)
             /\ pp_vec' = [begin |-> pp_index,
                           size |-> AssertionVector_size(pp_stack, pp_index),
                           level |-> level]
             /\ pp_skel_done' = FALSE
             /\ pp_iterations' = 0
             /\ pp_pc' = "top"
             /\ pp_op' = PPOp("level", 0)
  /\ UNCHANGED <<pp_options, pp_stack, pp_index, pp_num_levels, pp_cache,
                 pp_pass, pp_modified, pp_ran, pp_done>>
  /\ UNCHANGED pp_frame

\* the head of the do loop of apply(): assertions.reset_modified() and
\* ++d_stats.num_iterations
Preprocessor_apply_reset_modified ==
  /\ pp_pc = "top"
  /\ pp_modified' = 0
  /\ pp_iterations' = pp_iterations + 1
  /\ pp_ran' = <<>>
  /\ pp_pass' = 1
  /\ pp_pc' = "pass"
  /\ pp_op' = PPOp("reset_modified", 0)
  /\ UNCHANGED <<pp_options, pp_stack, pp_index, pp_num_levels, pp_bt_levels,
                 pp_cache, pp_vec, pp_skel_done, pp_done>>
  /\ UNCHANGED pp_frame

\* one pass of the loop body, or the step over a pass that is not run
Preprocessor_apply_pass ==
  /\ pp_pc = "pass"
  /\ LET body  == PassOrder(FALSE)
         pass  == body[pp_pass]
         nodes == VecNodes(pp_stack, pp_vec)
     IN /\ IF PassRuns(pass, pp_options, pp_skel_done)
             THEN LET r == IF pass = "elim_lambda"
                             THEN PassElimLambda_apply(1, nodes, pp_cache,
                                                       pp_vec.level,
                                                       pp_bt_levels)
                           ELSE [nodes |-> PassApply(pass, nodes),
                                 cache |-> pp_cache]
                  IN /\ pp_stack' = VecReplace(pp_stack, pp_vec, r.nodes)
                     /\ pp_cache' = r.cache
                     /\ pp_modified' = pp_modified + num_replaced(nodes, r.nodes)
                     /\ pp_ran' = Append(pp_ran, pass)
                     /\ pp_skel_done' =
                          (pp_skel_done \/ pass = "skeleton_preproc")
                     /\ pp_op' = PPOp(pass, 0)
           ELSE /\ UNCHANGED <<pp_stack, pp_cache, pp_modified, pp_ran,
                               pp_skel_done>>
                /\ pp_op' = PPOp("skip", 0)
        /\ IF pp_pass = Len(body)
             THEN pp_pc' = "test" /\ UNCHANGED pp_pass
           ELSE pp_pass' = pp_pass + 1 /\ UNCHANGED pp_pc
  /\ UNCHANGED <<pp_options, pp_index, pp_num_levels, pp_bt_levels, pp_vec,
                 pp_iterations, pp_done>>
  /\ UNCHANGED pp_frame

\* while (assertions.modified()); on the way out apply() returns and
\* preprocess() advances the view past the vector (set_index)
Preprocessor_apply_loop_test ==
  /\ pp_pc = "test"
  /\ IF pp_modified > 0
       THEN /\ pp_pc' = "top"
            /\ pp_op' = PPOp("again", 0)
            /\ UNCHANGED <<pp_index, pp_done>>
     ELSE /\ pp_index' = AssertionView_set_index(pp_vec.begin, pp_vec.size)
          /\ pp_done' = Append(pp_done, pp_vec.level)
          /\ pp_pc' = "level"
          /\ pp_op' = PPOp("fixed_point", 0)
  /\ UNCHANGED <<pp_options, pp_stack, pp_num_levels, pp_bt_levels, pp_cache,
                 pp_pass, pp_vec, pp_modified, pp_skel_done, pp_ran,
                 pp_iterations>>
  /\ UNCHANGED pp_frame

InitPreprocess ==
  /\ InitCtx
  /\ incremental
  /\ tracking = FALSE
  /\ EngineIdle
  /\ OptionsIdle
  /\ CApiIdle
  /\ CliIdle
  /\ OverflowIdle
  /\ ElimIdle
  /\ PrinterIdle
  /\ TimerIdle
  /\ pp_options \in PPOptionSets
  /\ PPStart

NextPreprocess ==
  \/ pp_push
  \/ \E t \in PPTerms : pp_assert_formula(t)
  \/ pp_pop
  \/ Preprocessor_preprocess_enter
  \/ Preprocessor_preprocess_level
  \/ Preprocessor_apply_reset_modified
  \/ Preprocessor_apply_pass
  \/ Preprocessor_apply_loop_test

SpecPreprocess == InitPreprocess /\ [][NextPreprocess]_vars

(* ----------------------------------------------------------------------- *)
(* The elim_lambda pass in isolation                                        *)
(* ----------------------------------------------------------------------- *)

MaxVector == 3

\* (lambda x. x = true)((lambda x. x = true)(true))
d_nested_apply == Node("APPLY", "Bool", "", <<d_bool_lambda, d_bool_apply>>)

\* (lambda x. x = true)(p)
d_apply_on_const == Node("APPLY", "Bool", "", <<d_bool_lambda, d_bool_const>>)

\* assertions with and without applications of a lambda
ElimTerms ==
  {d_bool_const, d_bool_apply, not_bool_apply, d_nested_apply,
   d_apply_on_const, mk_equal(d_apply_on_const, d_bool_const)}

\* the vectors given to the pass: assertions the stack took, each once
ElimVectors ==
  {q \in UNION {[1..n -> ElimTerms] : n \in 0..MaxVector} :
     \A i, j \in DOMAIN q : i # j => q[i] # q[j]}

\* d_pass_elim_lambda.apply(assertions) on a vector whose modified count was
\* reset before the call
PassElimLambda_apply_call ==
  /\ el_applications < 2
  /\ LET r == PassElimLambda_apply(1, el_assertions, el_cache, 0, 0)
     IN /\ el_assertions' = r.nodes
        /\ el_cache' = r.cache
        /\ el_modified' = num_replaced(el_assertions, r.nodes)
  /\ el_applications' = el_applications + 1
  /\ UNCHANGED el_original
  /\ UNCHANGED elim_frame

InitElimLambda ==
  /\ InitCtx
  /\ incremental
  /\ tracking = FALSE
  /\ EngineIdle
  /\ OptionsIdle
  /\ CApiIdle
  /\ CliIdle
  /\ OverflowIdle
  /\ PPIdle
  /\ PrinterIdle
  /\ TimerIdle
  /\ el_original \in ElimVectors
  /\ el_assertions = el_original
  /\ el_cache = {}
  /\ el_modified = 0
  /\ el_applications = 0

NextElimLambda ==
  \/ PassElimLambda_apply_call

SpecElimLambda == InitElimLambda /\ [][NextElimLambda]_vars

(* ----------------------------------------------------------------------- *)
(* Printer: let factorization of shared sub-terms (printer.cpp). A term is *)
(* printed with the stream's maximum depth at its default 0, i.e. without  *)
(* depth limit. The output is kept as a tree of what was written: leaves,  *)
(* let symbols, operators, binders and let blocks.                         *)
(* ----------------------------------------------------------------------- *)

\* number of let symbols of one block the model can name
MaxLets == 6

\* "_let" << i, for i = 0, 1, ...
LetNames == <<"_let0", "_let1", "_let2", "_let3", "_let4", "_let5">>

\* kind == FORALL || kind == EXISTS || kind == LAMBDA
IsBinder(t) == t.kind \in {"FORALL", "EXISTS", "LAMBDA"}

\* kind == VALUE || kind == CONSTANT || kind == VARIABLE
IsLeafKind(t) == t.kind \in {"VALUE", "CONSTANT", "VARIABLE"}

mk_and(a, b) == Node("AND", "Bool", "", <<a, b>>)

mk_forall(v, body) == Node("FORALL", "Bool", "", <<v, body>>)

\* Node ids grow in creation order, and a node is created after its
\* children: the order of a bottom-up, left-to-right construction of the term.
RECURSIVE CreationOrder(_, _), CreationOrderBelow(_, _, _)
CreationOrder(t, acc) ==
  IF t \in Range(acc) THEN acc
  ELSE Append(CreationOrderBelow(t, 1, acc), t)

CreationOrderBelow(t, i, acc) ==
  IF i > Len(t.ch) THEN acc
  ELSE CreationOrderBelow(t, i + 1, CreationOrder(t.ch[i], acc))

\* Node::id()
Node_id(order, t) == CHOOSE i \in DOMAIN order : order[i] = t

\* how often n is a child of q
Mult(n, q) == Cardinality({i \in DOMAIN q.ch : q.ch[i] = n})

RECURSIVE SumMult(_, _)
SumMult(n, parents) ==
  IF parents = {} THEN 0
  ELSE LET q == CHOOSE q \in parents : TRUE
       IN Mult(n, q) + SumMult(n, parents \ {q})

\* letify, first loop: the nodes entered in the cache, "do not go below
\* binders"
RECURSIVE visited_above(_)
visited_above(t) ==
  IF IsBinder(t) THEN {}
  ELSE {t} \cup UNION {visited_above(t.ch[i]) : i \in DOMAIN t.ch}

\* letify, first loop: the binders pushed on `binders`
found_binders(node) ==
  {b \in {node} \cup UNION {Range(q.ch) : q \in visited_above(node)} :
     IsBinder(b)}

\* letify, second loop: the nodes entered in the cache from a binder on;
\* a node already in the cache is not entered again
RECURSIVE visited_below(_, _)
visited_below(t, above) ==
  IF t \in above THEN {}
  ELSE {t} \cup UNION {visited_below(t.ch[i], above) : i \in DOMAIN t.ch}

visited_in_binders(node) ==
  UNION {visited_below(b, visited_above(node)) : b \in found_binders(node)}

\* refs[n] at the end of the two loops: every reference from a node of the
\* first loop, and the references from below binders only for a node that
\* has an entry already (refs.find(cur[i]) != refs.end())
refs(n, node) ==
  LET outside == SumMult(n, visited_above(node))
  IN IF outside = 0 THEN 0
     ELSE outside + SumMult(n, visited_in_binders(node))

\* lets: the nodes with children whose count reached 2
lets_found(node) ==
  {n \in UNION {Range(q.ch) :
                  q \in visited_above(node) \cup visited_in_binders(node)} :
     Len(n.ch) > 0 /\ refs(n, node) >= 2}

\* std::sort(lets.begin(), lets.end(), a.id() < b.id())
RECURSIVE sort_by_id(_, _)
sort_by_id(nodes, order) ==
  IF nodes = {} THEN <<>>
  ELSE LET m == CHOOSE m \in nodes :
                  \A o \in nodes : Node_id(order, m) <= Node_id(order, o)
       IN <<m>> \o sort_by_id(nodes \ {m}, order)

OutLeaf(node) == Out("leaf", node.kind, node.sym, node, <<>>, <<>>)

OutSym(name) == Out("sym", "", name, NullTerm, <<>>, <<>>)

OutApp(kind, outs) == Out("app", kind, "", NullTerm, <<>>, outs)

OutBinder(kind, var, body) == Out("binder", kind, "", var, <<>>, <<body>>)

OutLet(bind, body) == Out("let", "", "", NullTerm, bind, <<body>>)

\* assert(lit != let_map.end()) failed: the process aborts, or with NDEBUG
\* the end iterator is dereferenced
OutAssertFailed == Out("assert_failed", "", "", NullTerm, <<>>, <<>>)

\* let_map is passed by reference through Printer::print and letify, and
\* every call returns it as it has left it
RECURSIVE Printer_print(_, _, _, _), print_children(_, _, _, _, _, _)
RECURSIVE letify(_, _, _), letify_bindings(_, _, _, _, _)

\* Printer::print(os, node, let_map, max_depth): one node taken from `visit`
\* with the call's cache
Printer_print(cur, let_map, cache, order) ==
  IF cur \in cache
  THEN \* met again in this call
       [out |-> IF IsLeafKind(cur) THEN OutLeaf(cur)
                ELSE IF cur \in DOMAIN let_map THEN OutSym(let_map[cur])
                ELSE OutAssertFailed,
        let_map |-> let_map, cache |-> cache]
  ELSE IF IsLeafKind(cur)
  THEN [out |-> OutLeaf(cur), let_map |-> let_map,
        cache |-> cache \cup {cur}]
  ELSE IF cur \in DOMAIN let_map
  THEN [out |-> OutSym(let_map[cur]), let_map |-> let_map,
        cache |-> cache \cup {cur}]
  ELSE IF IsBinder(cur)
  THEN \* the variable and the body are popped, the body is letified
       LET r == letify(cur.ch[2], let_map, order)
       IN [out |-> OutBinder(cur.kind, cur.ch[1], r.out),
           let_map |-> r.let_map, cache |-> cache \cup {cur}]
  ELSE LET r == print_children(cur, 1, <<>>, let_map, cache \cup {cur}, order)
       IN [out |-> OutApp(cur.kind, r.outs), let_map |-> r.let_map,
           cache |-> r.cache]

\* the children of cur, first child first
print_children(cur, i, outs, let_map, cache, order) ==
  IF i > Len(cur.ch)
  THEN [outs |-> outs, let_map |-> let_map, cache |-> cache]
  ELSE LET r == Printer_print(cur.ch[i], let_map, cache, order)
       IN print_children(cur, i + 1, Append(outs, r.out), r.let_map,
                         r.cache, order)

\* letify: the bindings "(_let<i> <term>)" of one block; lets[i] enters
\* let_map after its term is printed
letify_bindings(lets, i, bind, let_map, order) ==
  IF i > Len(lets) THEN [bind |-> bind, let_map |-> let_map]
  ELSE LET d == Printer_print(lets[i], let_map, {}, order)
           sym == LetNames[i]
       IN letify_bindings(lets, i + 1,
                          Append(bind, [sym |-> sym, def |-> d.out]),
                          (lets[i] :> sym) @@ d.let_map, order)

\* Printer::letify(os, node, let_map, max_depth)
letify(node, let_map, order) ==
  LET lets == sort_by_id(lets_found(node), order)
      b == letify_bindings(lets, 1, <<>>, let_map, order)
      body == Printer_print(node, b.let_map, {}, order)
  IN [out |-> IF lets = <<>> THEN body.out ELSE OutLet(b.bind, body.out),
      let_map |-> body.let_map]

\* Printer::print(os, node): a fresh let_map
Printer_print_node(node) ==
  letify(node, <<>>, CreationOrder(node, <<>>)).out

\* closed Boolean terms
ClosedTerms ==
  {d_bool_const, not_bool_const, mk_not(not_bool_const),
   mk_and(not_bool_const, d_bool_const)}

\* Boolean terms that may mention the bound variable x
OpenTerms ==
  {not_bool_const, mk_not(d_bool_var), d_bool_var,
   mk_and(not_bool_const, d_bool_const)}

\* the terms printed: without binders, with one binder whose body shares
\* sub-terms with the outside, and with a binder followed by more terms
PrintedTerms ==
  {mk_and(mk_equal(u, v), w) : u \in ClosedTerms, v \in ClosedTerms,
                                w \in ClosedTerms}
  \cup {mk_and(u, mk_forall(d_bool_var, mk_and(mk_and(v, w), z))) :
          u \in ClosedTerms, v \in OpenTerms, w \in OpenTerms,
          z \in OpenTerms}
  \cup {mk_and(mk_and(mk_forall(d_bool_var,
                                mk_and(mk_and(u, u), mk_and(v, v))), v), w) :
          u \in OpenTerms, v \in ClosedTerms, w \in ClosedTerms}

\* os << node
Printer_print_call ==
  /\ ~pt_done
  /\ pt_out' = Printer_print_node(pt_root)
  /\ pt_done' = TRUE
  /\ UNCHANGED <<pt_root, printer_frame>>

InitPrinter ==
  /\ InitCtx
  /\ incremental
  /\ tracking = FALSE
  /\ EngineIdle
  /\ OptionsIdle
  /\ CApiIdle
  /\ CliIdle
  /\ OverflowIdle
  /\ PPIdle
  /\ ElimIdle
  /\ TimerIdle
  /\ pt_root \in PrintedTerms
  /\ pt_out = NoOut
  /\ pt_done = FALSE

NextPrinter ==
  \/ Printer_print_call

SpecPrinter == InitPrinter /\ [][NextPrinter]_vars

(* ----------------------------------------------------------------------- *)
(* Timer and TimerStatistic (util/statistics.cpp). Timers are created and  *)
(* destroyed in properly nested order, as scoped objects are; the clock is *)
(* counted in ticks.                                                       *)
(* ----------------------------------------------------------------------- *)

\* Timers alive at once
MaxTimers == 3

\* ticks of the clock
MaxClock == 6

\* TimerStatistic::running()
TimerStatistic_running(stat) == stat.d_running

\* TimerStatistic::elapsed()
TimerStatistic_elapsed(stat, now) ==
  IF stat.d_running THEN stat.d_elapsed + (now - stat.d_start)
  ELSE stat.d_elapsed

\* TimerStatistic::start(): assert(!d_running)
TimerStatistic_start(stat, now) ==
  {[stat |-> [stat EXCEPT !.d_start = now, !.d_running = TRUE],
    outcome |-> o] :
     o \in IF stat.d_running THEN AssertFailed ELSE {"ok"}}

\* TimerStatistic::stop(): assert(d_running)
TimerStatistic_stop(stat, now) ==
  {[stat |-> [stat EXCEPT !.d_elapsed = @ + (now - stat.d_start),
                          !.d_running = FALSE],
    outcome |-> o] :
     o \in IF stat.d_running THEN {"ok"} ELSE AssertFailed}

\* Timer::~Timer(): if (d_stat.running())
Timer_dtor_stops(stat, timers) == TimerStatistic_running(stat)

\* Timer::Timer(TimerStatistic& stat)
Timer_ctor ==
  /\ tm_outcome = "ok"
  /\ Len(tm_timers) < MaxTimers
  /\ tm_timers' = Append(tm_timers, [d_stat |-> "stat"])
  /\ IF ~TimerStatistic_running(tm_stat)
     THEN \E r \in TimerStatistic_start(tm_stat, tm_now) :
            /\ tm_stat' = r.stat
            /\ tm_outcome' = r.outcome
     ELSE UNCHANGED <<tm_stat, tm_outcome>>
  /\ UNCHANGED <<tm_now, timer_frame>>

\* Timer::~Timer() of the innermost live Timer
Timer_dtor ==
  /\ tm_outcome = "ok"
  /\ tm_timers # <<>>
  /\ tm_timers' = SubSeq(tm_timers, 1, Len(tm_timers) - 1)
  /\ IF Timer_dtor_stops(tm_stat, tm_timers)
     THEN \E r \in TimerStatistic_stop(tm_stat, tm_now) :
            /\ tm_stat' = r.stat
            /\ tm_outcome' = r.outcome
     ELSE UNCHANGED <<tm_stat, tm_outcome>>
  /\ UNCHANGED <<tm_now, timer_frame>>

\* time passes
clock_tick ==
  /\ tm_outcome = "ok"
  /\ tm_now < MaxClock
  /\ tm_now' = tm_now + 1
  /\ UNCHANGED <<tm_stat, tm_timers, tm_outcome, timer_frame>>

InitTimer ==
  /\ InitCtx
  /\ incremental
  /\ tracking = FALSE
  /\ EngineIdle
  /\ OptionsIdle
  /\ CApiIdle
  /\ CliIdle
  /\ OverflowIdle
  /\ PPIdle
  /\ ElimIdle
  /\ PrinterIdle
  /\ TimerIdle

NextTimer ==
  \/ Timer_ctor
  \/ Timer_dtor
  \/ clock_tick

SpecTimer == InitTimer /\ [][NextTimer]_vars

(* ----------------------------------------------------------------------- *)
(* Properties                                                              *)
(* ----------------------------------------------------------------------- *)

CheckSatDone == op.name = "check_sat" /\ op.outcome = "ok"

\* C1: after a check_sat that returned SAT the model left behind satisfies
\* every original assertion on the stack, and after one that returned UNSAT
\* no model satisfies the original assertions reported as the unsat core.
C1_SoundResult ==
  CheckSatDone =>
    /\ op.result = "SAT" =>
         \A i \in DOMAIN d_original_assertions :
           Holds(d_original_assertions[i].node, d_model)
    /\ op.result = "UNSAT" =>
         ~\E m \in Models :
            \A t \in SolvingContext_get_unsat_core : Holds(t, m)

\* a SAT answer over assertions that preprocessing had to rewrite
C1_Witness ==
  /\ CheckSatDone
  /\ op.result = "SAT"
  /\ d_model["p"]
  /\ Len(d_original_assertions) = 2
  /\ d_assertions # d_original_assertions

AtFixedPoint(t) == RunPasses(PassOrder(TRUE), <<t>>) = <<t>>

C4_PushPopNeedIncremental ==
  /\ (op.name \in {"push", "pop"} /\ op.n > 0 /\ ~incremental) =>
       op.outcome = "exception"
  /\ (op.name = "pop" /\ op.n > op.pre) => op.outcome = "exception"

\* C5: without the incremental option every check_sat after the first
\* throws; with it any number of check_sat calls succeed.
C5_SecondCheckSatThrows ==
  (op.name = "check_sat" /\ op.pre = 1) =>
    op.outcome = (IF incremental THEN "ok" ELSE "exception")

SameLevels(as, bs) ==
  /\ Len(as) = Len(bs)
  /\ \A i \in DOMAIN as : as[i].level = bs[i].level

Equivalent(a, b) == \A m \in Models : Holds(a, m) <=> Holds(b, m)

C7_RejectsNonFormula ==
  (op.name = "assert_formula" /\ op.tag # "bool") =>
    op.outcome = "exception"

\* C8: get_value fails with a usage error unless the last check_sat
\* returned SAT.
C8_ValueNeedsSat ==
  (op.name = "get_value" /\ d_sat_state # "SAT") => op.outcome = "exception"

\* C9: get_unsat_core fails unless the last check_sat returned UNSAT, and a
\* core it returns is a set of original assertions that is jointly UNSAT.
C9_CoreNeedsUnsat ==
  op.name = "get_unsat_core" =>
    IF d_sat_state = "UNSAT"
      THEN /\ op.outcome = "ok"
           /\ Bitwuzla_get_unsat_core_result
                \subseteq {d_original_assertions[i].node :
                             i \in DOMAIN d_original_assertions}
           /\ ~\E m \in Models :
                \A t \in Bitwuzla_get_unsat_core_result : Holds(t, m)
    ELSE op.outcome = "exception"

ReducesTo(v) ==
  LET pre == Preprocessor_preprocess(d_assertions, d_view, pp_levels,
                                     d_levels)
  IN \A i \in DOMAIN pre.assertions : pre.assertions[i].node = v

\* C10: simplify returns SAT when preprocessing reduces the assertions to
\* true, UNSAT when it reduces them to false, and UNKNOWN otherwise.
C10_SimplifyResult ==
  (op.name = "simplify" /\ Len(d_assertions) > 0) =>
    op.result = (IF ReducesTo(d_true) THEN "SAT"
                 ELSE IF ReducesTo(mk_false) THEN "UNSAT"
                 ELSE "UNKNOWN")

\* the steps the state machine of one check_sat allows
EngineTransition ==
  \/ d_engine_state = "IDLE" /\ d_engine_state' = "PREPROCESSING"
  \/ d_engine_state = "PREPROCESSING" /\ d_engine_state' = "BIT_BLASTING"
  \/ d_engine_state = "BIT_BLASTING" /\ d_engine_state' = "SAT_SOLVING"
  \/ /\ d_engine_state = "SAT_SOLVING"
     /\ d_engine_state' = (IF d_engine_result' = "SAT"
                             THEN "CONGRUENCE_CHECK" ELSE "IDLE")
  \/ /\ d_engine_state = "CONGRUENCE_CHECK"
     /\ d_engine_state' = (IF d_lemmas' # d_lemmas
                             THEN "SAT_SOLVING" ELSE "IDLE")

\* C11: a check_sat goes IDLE, PREPROCESSING, BIT_BLASTING, SAT_SOLVING; a
\* SAT answer leads to CONGRUENCE_CHECK and from there to IDLE when no lemma
\* was sent and back to SAT_SOLVING when one was; UNSAT and UNKNOWN lead to
\* IDLE; nothing else happens, and every invocation comes back to IDLE.
C11_StateMachine ==
  /\ [][d_engine_state' # d_engine_state => EngineTransition]_vars
  /\ (d_engine_state # "IDLE" ~> d_engine_state = "IDLE")

\* an invocation that went round the lemma loop and ended with SAT
C11_Witness ==
  /\ d_engine_state = "IDLE"
  /\ d_engine_result = "SAT"
  /\ d_lemmas # {}
  /\ d_terminator = "none"

SameArguments(a, b, m) ==
  /\ a.ch[1] = b.ch[1]
  /\ \A i \in 2..Len(a.ch) :
       SolverState_value(a.ch[i], m) = SolverState_value(b.ch[i], m)

\* C12: in the model a check_sat leaves when it returns SAT, two registered
\* applications of the same function whose arguments have equal values have
\* equal values.
C12_Congruence ==
  (d_engine_state = "IDLE" /\ d_engine_result = "SAT") =>
    \A a, b \in Range(d_applies) :
      SameArguments(a, b, d_bv_model) =>
        SolverState_value(a, d_bv_model) = SolverState_value(b, d_bv_model)

\* a final model in which two different applications agree on the argument
\* values, reached after a lemma
C12_Witness ==
  /\ d_engine_state = "IDLE"
  /\ d_engine_result = "SAT"
  /\ d_lemmas # {}
  /\ \E a, b \in Range(d_applies) :
       a # b /\ SameArguments(a, b, d_bv_model)

\* C13: once an instance is constructed from an Options object, no later set
\* on that object changes an option value the instance observes: what
\* options() reads, in every later operation, is what the constructor got
C13_OptionsBoundAtConstruction ==
  /\ d_env_options # "none" => objects[d_env_options] = constructed_with
  /\ opt_call.name = "options" => opt_call.result = constructed_with

\* the instance read its options after the Options object was changed
C13_Witness ==
  /\ opt_call.name = "options"
  /\ objects.api # constructed_with
  /\ opt_call.result = constructed_with

\* C18: Options::set throws and leaves every value unchanged for a numeric
\* value outside the option's range, and an accepted set is what the next
\* get returns
C18_SetValidates ==
  (opt_call.name = "set" /\ opt_call.option = "VERBOSITY") =>
    IF opt_call.value <= VERBOSITY_MAX
    THEN opt_call.outcome = "ok" /\ objects.api.verbosity = opt_call.value
    ELSE opt_call.outcome = "exception" /\ objects.api = opt_call.pre

\* what the completed call of a step did to the observable state
CompletedCall ==
  LET o == op'
      same_result == d_sat_state' = d_sat_state /\ d_model' = d_model
      same_stack  == /\ d_original_assertions' = d_original_assertions
                     /\ d_levels' = d_levels
  IN o.outcome = "ok" =>
       CASE o.name = "assert_formula" ->
              /\ \E t \in BoolTerms \cup BadTerms :
                   d_original_assertions' =
                     Append(d_original_assertions,
                            [node |-> t, level |-> d_levels])
              /\ d_levels' = d_levels
              /\ same_result
         [] o.name = "push" ->
              /\ d_levels' = d_levels + o.n
              /\ d_original_assertions' = d_original_assertions
              /\ same_result
         [] o.name = "pop" ->
              /\ d_levels' = d_levels - o.n
              /\ d_original_assertions' =
                   SelectSeq(d_original_assertions,
                             LAMBDA e : e.level <= d_levels - o.n)
              /\ same_result
         [] o.name = "check_sat" ->
              /\ same_stack
              /\ d_sat_state' = o.result
              /\ d_sat_state' = "SAT" =>
                   \A i \in DOMAIN d_assertions' :
                     Holds(d_assertions'[i].node, d_model')
         [] o.name = "get_value" ->
              /\ same_stack
              /\ same_result
              /\ d_sat_state = "SAT"
              /\ \E t \in ValueTerms :
                   o.result = (IF Holds(t, d_model) THEN d_true
                               ELSE mk_false).sym
         [] OTHER -> same_stack /\ same_result

\* C14: the calls on one context take effect one after the other, and the
\* observable state is that of the most recent completed call: the
\* assertions are those asserted and not popped, the last result is that of
\* the most recent check_sat, and get_value reads the model of that check_sat
C14_MostRecentCall ==
  /\ [][CompletedCall]_vars
  /\ [](\A i \in DOMAIN d_original_assertions :
          d_original_assertions[i].level <= d_levels)

\* a pop took a level off after a check_sat answered SAT, an earlier
\* assertion is still there
C14_Witness ==
  /\ op.name = "pop" /\ op.outcome = "ok" /\ op.n = 1 /\ op.pre = 1
  /\ d_sat_state = "SAT"
  /\ Len(d_original_assertions) = 1

\* the call of a step is one the API has to reject
MustFail ==
  LET o == op'
  IN \/ o.name = "assert_formula" /\ o.tag \in {"null", "nonbool"}
     \/ o.name \in {"push", "pop"} /\ o.n > 0 /\ ~incremental
     \/ o.name = "pop" /\ o.n > d_levels
     \/ o.name = "get_value" /\ d_sat_state # "SAT"

\* C15: a call that fails with a TypeError or UsageError (assert of a term
\* that is not Bool, push or pop without incremental mode, pop past the
\* root, get_value before SAT) is reported at the call site and leaves the
\* assertion stack, the pushed levels and the last result as they were
C15_FailedCallLeavesState ==
  [][MustFail =>
       /\ op'.outcome = "exception"
       /\ UNCHANGED <<d_levels, d_original_assertions, d_sat_state>>]_vars

CountOf(map, id) == IF id \in DOMAIN map THEN map[id] ELSE 0

\* the call of a step handed out a term id, a sort id
AcquiresTerm ==
  capi_call'.outcome = "ok" /\ term_map' # term_map

AcquiresSort ==
  capi_call'.outcome = "ok" /\ sort_map' # sort_map

\* the call of a step gave up the instance's handles: the instance was
\* deleted, or reset ("all sorts and terms ... are released")
ReleasesHandles ==
  /\ capi_call'.name \in {"bitwuzla_delete", "bitwuzla_reset"}
  /\ capi_call' # capi_call

\* C17: acquiring a handle to a term or sort adds one to that id's external
\* reference count and releasing it takes one off; every id with a positive
\* count maps to a live term or sort, and an id whose handles have all been
\* released is reclaimed
C17_HandleCounts ==
  /\ [][/\ AcquiresTerm =>
             term_map'[capi_call'.id] = CountOf(term_map, capi_call'.id) + 1
        /\ AcquiresSort =>
             sort_map'[capi_call'.id] = CountOf(sort_map, capi_call'.id) + 1
        /\ ReleasesHandles =>
             /\ \A id \in DOMAIN term_map' : term_map'[id] = 0
             /\ \A id \in DOMAIN sort_map' : sort_map'[id] = 0]_vars
  /\ [](/\ DOMAIN term_map \subseteq DOMAIN d_node_table
        /\ DOMAIN sort_map \subseteq DOMAIN d_type_table)

\* the call of a step was bitwuzla_reset
ResetStep == capi_call'.name = "bitwuzla_reset" /\ capi_call' # capi_call

\* C20: bitwuzla_reset puts a new instance in the place of the given one:
\* after it there are no assertions, no pushed levels and no last result,
\* and the instance's terms and sorts are released, their ids not accepted
C20_ResetGivesNewInstance ==
  [][ResetStep =>
       /\ d_assertions' = <<>>
       /\ d_original_assertions' = <<>>
       /\ d_levels' = 0
       /\ d_sat_state' = "UNKNOWN"
       /\ ~checked'
       /\ DOMAIN term_map' = {}
       /\ DOMAIN sort_map' = {}]_vars

\* the process has ended with a status the shell sees as nonzero
NonzeroStatus ==
  \/ exit_status.kind = "signal"
  \/ exit_status.kind = "exit" /\ exit_status.code # 0

\* C21: the front end exits with 10 when the script's check-sat was sat, with
\* 20 when it was unsat, with 0 on every other success (help, copyright,
\* version, a script with no check-sat or an unknown answer), and with a
\* nonzero status on every error (an option it does not know, a parse error)
C21_ExitCodes ==
  exit_status # Running =>
    CASE main_pc = "parsed" /\ infile = "sat" -> exit_status = Exit(10)
      [] main_pc = "parsed" /\ infile = "unsat" -> exit_status = Exit(20)
      [] main_pc \in {"parsed", "help", "copyright", "version"} ->
           exit_status = Exit(0)
      [] OTHER -> NonzeroStatus

\* the tests' exact result: add, sub, mul and div on int32_t (the division
\* of C++ truncates towards zero)
test_result(c) ==
  LET abs(x) == IF x < 0 THEN -x ELSE x
  IN CASE c.kind \in {"BV_UADDO", "BV_SADDO"} -> c.i + c.j
       [] c.kind \in {"BV_USUBO", "BV_SSUBO"} -> c.i - c.j
       [] c.kind \in {"BV_UMULO", "BV_SMULO"} -> c.i * c.j
       [] OTHER -> IF (c.i < 0) = (c.j < 0) THEN abs(c.i) \div abs(c.j)
                   ELSE -(abs(c.i) \div abs(c.j))

\* the exact result does not fit the width: unsigned outside 0 .. 2^n - 1,
\* signed outside -2^(n-1) .. 2^(n-1) - 1
OutOfRange(c) ==
  IF c.kind \in UnsignedKinds
    THEN test_result(c) < 0 \/ test_result(c) >= Pow2(c.num_bits)
  ELSE ~(/\ test_result(c) >= -Pow2(c.num_bits - 1)
         /\ test_result(c) < Pow2(c.num_bits - 1))

Conflicting(a, b, m) ==
  /\ a.ch[1] = b.ch[1]
  /\ Apply(a, m).values = Apply(b, m).values
  /\ Apply(a, m).value # Apply(b, m).value

\* (a_1 = b_1 /\ ... /\ a_n = b_n) => a = b, as a set of one lemma
CongruenceLemma(a, b) ==
  LET n == Len(a.ch) - 1
      eq(i) == Node("EQUAL", "Bool", "", <<a.ch[i + 1], b.ch[i + 1]>>)
      conj[i \in 1..n] ==
        IF i = n THEN eq(i) ELSE Node("AND", "Bool", "", <<eq(i), conj[i + 1]>>)
  IN {Node("IMPLIES", "Bool", "", <<conj[1], Node("EQUAL", "Bool", "", <<a, b>>)>>)}

\* the congruence lemma over a and b was sent, written either way round
LemmaSent(a, b, lemmas) ==
  \/ CongruenceLemma(a, b) \subseteq lemmas
  \/ CongruenceLemma(b, a) \subseteq lemmas

\* a step that runs FunSolver::check
CheckStep == d_engine_state = "CONGRUENCE_CHECK" /\ d_engine_state' # "CONGRUENCE_CHECK"

\* the first registered application of a's function whose argument values
\* are those of a: the entry FunSolver::check finds in the function's model
Representative(a, applies, m) ==
  LET k == CHOOSE k \in DOMAIN applies :
             /\ applies[k].ch[1] = a.ch[1]
             /\ Apply(applies[k], m).values = Apply(a, m).values
             /\ \A l \in 1..(k - 1) :
                  ~(/\ applies[l].ch[1] = a.ch[1]
                    /\ Apply(applies[l], m).values = Apply(a, m).values)
  IN applies[k]

\* C23 as stated: whenever two registered applications a and b of one
\* function have the same argument values and different values in the SAT
\* model, FunSolver::check sends the lemma over a and b, and another SAT
\* round follows
C23_LemmaForEveryPair ==
  [][CheckStep =>
       \A i, j \in DOMAIN d_applies :
         Conflicting(d_applies[i], d_applies[j], d_bv_model) =>
           /\ LemmaSent(d_applies[i], d_applies[j], d_lemmas')
           /\ d_engine_state' = "SAT_SOLVING"]_vars

\* C23, amended: FunSolver::check compares every application with the
\* first registered one of the same function and argument values, and sends
\* (a_1 = r_1 /\ ... /\ a_n = r_n) => a = r for every application a whose
\* value differs from that representative r's, and no other lemma; so of
\* two conflicting applications at least one gets its lemma, and another
\* SAT round follows
C23_LemmaAgainstRepresentative ==
  [][CheckStep =>
       LET rep(a) == Representative(a, d_applies, d_bv_model)
           differs == {a \in Range(d_applies) :
                         Conflicting(a, rep(a), d_bv_model)}
       IN /\ d_lemmas' = d_lemmas \cup
                UNION {CongruenceLemma(a, rep(a)) : a \in differs}
          /\ \A i, j \in DOMAIN d_applies :
               Conflicting(d_applies[i], d_applies[j], d_bv_model) =>
                 /\ \/ d_applies[i] \in differs
                    \/ d_applies[j] \in differs
                 /\ d_engine_state' = "SAT_SOLVING"]_vars

\* three applications with equal arguments, the second differing from the
\* first and from the third: the check has sent one lemma, for the second
\* against the first, and none over the second and the third
C23_Witness ==
  /\ d_engine_state = "SAT_SOLVING"
  /\ Len(d_applies) = 3
  /\ Conflicting(d_applies[2], d_applies[1], d_bv_model)
  /\ Conflicting(d_applies[2], d_applies[3], d_bv_model)
  /\ d_lemmas = CongruenceLemma(d_applies[2], d_applies[1])

\* no two registered applications of one function agree on the argument
\* values and differ in value: FunSolver::check has nothing to send
FixedPoint(applies, m) ==
  \A a, b \in Range(applies) :
    SameArguments(a, b, m) =>
      SolverState_value(a, m) = SolverState_value(b, m)

\* the loop of SAT round and congruence check is left
LoopExit ==
  /\ d_engine_state \in {"SAT_SOLVING", "CONGRUENCE_CHECK"}
  /\ d_engine_state' = "IDLE"

\* the congruence check asks for another SAT round
AnotherRound ==
  /\ d_engine_state = "CONGRUENCE_CHECK"
  /\ d_engine_state' = "SAT_SOLVING"

\* C24: the loop of SAT round and congruence check terminates.  Every
\* round that asks for another one adds a lemma the current assignment
\* violates, so no assignment is answered twice; the loop is left after
\* finitely many rounds; and with no terminator connected it is left with
\* UNSAT from the SAT core or with a model FunSolver::check has no lemma for
C24_RefinementTerminates ==
  /\ [][AnotherRound =>
          \E l \in d_lemmas' \ d_lemmas :
            SolverState_value(l, d_bv_model) = 0]_vars
  /\ (d_engine_state = "SAT_SOLVING" ~> d_engine_state = "IDLE")
  /\ [][(LoopExit /\ d_terminator = "none") =>
          \/ d_engine_result' = "UNSAT"
          \/ /\ d_engine_result' = "SAT"
             /\ FixedPoint(d_applies, d_bv_model')]_vars

\* a loop that was left with UNSAT after a round that sent a lemma
C24_Witness ==
  /\ d_engine_state = "IDLE"
  /\ d_engine_result = "UNSAT"
  /\ d_lemmas # {}
  /\ d_terminator = "none"

\* the passes whose toggle is on, in the order of the loop body
ToggledPasses(options) ==
  SelectSeq(PassOrder(FALSE), LAMBDA q : PassToggled(q, options))

\* the loop body of apply() has just been left
IterationEnds == pp_pc = "pass" /\ pp_pc' = "test"

\* what every step of the loop does to the modified count: the head of the
\* loop resets it, a pass raises it exactly when it changes an assertion,
\* and the loop is left exactly when it is still zero at the test
ModifiedFlagSteps ==
  /\ pp_pc = "top" => pp_modified' = 0
  /\ pp_pc = "pass" => ((pp_modified' > pp_modified) <=> (pp_stack' # pp_stack))
  /\ pp_pc = "pass" => pp_modified' >= pp_modified
  /\ pp_pc = "test" => ((pp_pc' = "level") <=> (pp_modified = 0))
  /\ pp_pc = "test" => pp_pc' \in {"level", "top"}

\* C25 as stated: the fixed-point loop resets the modified flag at the start
\* of every iteration, runs each enabled pass exactly once in every
\* iteration, and ends exactly when an iteration modified no assertion
C25_EachPassEveryIteration ==
  [][/\ ModifiedFlagSteps
     /\ IterationEnds => pp_ran' = ToggledPasses(pp_options)]_vars

\* C25, amended: as stated, except that the skeleton pass, when enabled,
\* runs in the first iteration of an apply() only
C25_SkeletonOnlyFirstIteration ==
  [][/\ ModifiedFlagSteps
     /\ IterationEnds =>
          pp_ran' = SelectSeq(ToggledPasses(pp_options),
                              LAMBDA q : q = "skeleton_preproc" =>
                                           pp_iterations = 1)]_vars

\* a second iteration with the skeleton pass enabled that ran every other
\* enabled pass and not the skeleton pass
C25_Witness ==
  /\ pp_pc = "test"
  /\ pp_iterations = 2
  /\ pp_options.skeleton_preproc
  /\ Len(pp_ran) = Len(ToggledPasses(pp_options)) - 1
  /\ \A k \in DOMAIN pp_ran : pp_ran[k] # "skeleton_preproc"

\* preprocess() is under way
PPRunning == pp_pc # "idle"

\* the places of the stack a step has changed
ChangedPlaces == {i \in DOMAIN pp_stack : pp_stack'[i] # pp_stack[i]}

\* C26: preprocess() handles the pending assertions level by level in
\* increasing order.  While it runs, a step changes only assertions of the
\* level in hand, all of them inside the current vector; the vector of a
\* level is formed only on entry or after the loop of the level before it
\* ended with no modification, starts where that one ended and is of a
\* higher level; the levels finished are strictly increasing; and when
\* preprocess() returns the view is empty.  The stacks are those a sequence
\* of assert, push and pop leaves
C26_LevelByLevel ==
  [][/\ PPRunning =>
          /\ Len(pp_stack') = Len(pp_stack)
          /\ \A i \in ChangedPlaces :
               /\ pp_pc = "pass"
               /\ pp_stack[i].level = pp_vec.level
               /\ i > pp_vec.begin /\ i <= pp_vec.begin + pp_vec.size
               /\ pp_stack'[i].level = pp_stack[i].level
     /\ (PPRunning /\ pp_vec' # pp_vec) =>
          /\ pp_pc = "level" /\ pp_pc' = "top"
          /\ pp_op.name \in {"enter", "fixed_point"}
          /\ pp_vec'.size > 0
          /\ \A i \in 1..Len(pp_stack) :
               pp_stack[i].level = pp_vec'.level =>
                 (i > pp_vec'.begin /\ i <= pp_vec'.begin + pp_vec'.size)
                 \/ i <= pp_index
          /\ pp_op.name = "fixed_point" =>
               /\ pp_modified = 0
               /\ pp_vec'.begin = pp_vec.begin + pp_vec.size
               /\ pp_vec'.level > pp_vec.level
     /\ \A i, j \in DOMAIN pp_done' : i < j => pp_done'[i] < pp_done'[j]
     /\ pp_op'.name = "preprocess" => pp_index' = Len(pp_stack')]_vars

\* a preprocess() that has returned after it handled assertions of two
\* levels, the lower one first
C26_Witness ==
  /\ pp_pc = "idle"
  /\ pp_op.name = "preprocess"
  /\ Len(pp_done) = 2
  /\ pp_done[1] < pp_done[2]
  /\ pp_index = Len(pp_stack)

RECURSIVE HasRedex(_)
HasRedex(t) ==
  \/ t.kind = "APPLY" /\ t.ch[1].kind = "LAMBDA"
  \/ \E i \in DOMAIN t.ch : HasRedex(t.ch[i])

\* what holds of the vector after apply() has run
AfterElimLambda ==
  /\ el_applications >= 1 =>
       /\ \A i \in DOMAIN el_assertions :
            /\ ~HasRedex(el_assertions[i])
            /\ \A m \in Models :
                 Holds(el_assertions[i], m) = Holds(el_original[i], m)
       /\ Len(el_assertions) = Len(el_original)
  /\ el_applications = 1 =>
       ((el_modified > 0) <=> (el_assertions # el_original))
  /\ el_applications = 2 => el_modified = 0

RECURSIVE Expand(_, _), ExpandBindings(_, _, _)
Unbound == Node("UNBOUND", "none", "", <<>>)

Expand(out, env) ==
  CASE out.tag = "leaf" -> out.node
    [] out.tag = "sym" ->
         IF out.name \in DOMAIN env THEN env[out.name] ELSE Unbound
    [] out.tag = "app" ->
         Node(out.kind, "Bool", "",
              [i \in DOMAIN out.ch |-> Expand(out.ch[i], env)])
    [] out.tag = "binder" ->
         Node(out.kind, "Bool", "", <<out.node, Expand(out.ch[1], env)>>)
    [] out.tag = "let" ->
         Expand(out.ch[1], ExpandBindings(out.bind, 1, env))
    [] OTHER -> Unbound

ExpandBindings(bind, i, env) ==
  IF i > Len(bind) THEN env
  ELSE ExpandBindings(bind, i + 1,
                      (bind[i].sym :> Expand(bind[i].def, env)) @@ env)

\* the terms written out in full, operator and arguments, in the output
RECURSIVE WrittenInFull(_, _), WrittenInBindings(_, _, _)
WrittenInFull(out, env) ==
  CASE out.tag = "app" ->
         <<Expand(out, env)>>
         \o WrittenInBindings([i \in DOMAIN out.ch |->
                                 [sym |-> "", def |-> out.ch[i]]], 1,
                              [env |-> env, keep |-> TRUE])
    [] out.tag = "binder" ->
         <<Expand(out, env)>> \o WrittenInFull(out.ch[1], env)
    [] out.tag = "let" ->
         WrittenInBindings(out.bind, 1, [env |-> env, keep |-> FALSE])
         \o WrittenInFull(out.ch[1], ExpandBindings(out.bind, 1, env))
    [] OTHER -> <<>>

WrittenInBindings(bind, i, e) ==
  IF i > Len(bind) THEN <<>>
  ELSE WrittenInFull(bind[i].def, e.env)
       \o WrittenInBindings(bind, i + 1,
            IF e.keep THEN e
            ELSE [e EXCEPT !.env = (bind[i].sym :> Expand(bind[i].def, e.env))
                                  @@ e.env])

RECURSIVE SubTermsOf(_)
SubTermsOf(t) == {t} \cup UNION {SubTermsOf(t.ch[i]) : i \in DOMAIN t.ch}

\* the sub-terms with children that are referenced more than once
SharedSubTerms(t) ==
  {n \in SubTermsOf(t) : Len(n.ch) > 0 /\ SumMult(n, SubTermsOf(t)) >= 2}

TimesWritten(n, out) ==
  Cardinality({i \in DOMAIN WrittenInFull(out, <<>>) :
                 WrittenInFull(out, <<>>)[i] = n})

\* every let symbol is bound where it occurs and the output stands for the
\* printed term
LetsInScope == Expand(pt_out, <<>>) = pt_root

\* every shared sub-term is written in full once
SharedWrittenOnce ==
  \A n \in SharedSubTerms(pt_root) : TimesWritten(n, pt_out) = 1

\* C29: a printed term is let-factorized: every sub-term with children that
\* is referenced more than once is bound by a let and written once, and every
\* let symbol in the output occurs in the scope of its let and stands for the
\* sub-term it replaced, also below binders.
C29_LetFactorization ==
  pt_done => LetsInScope /\ SharedWrittenOnce

\* the factorization is right for a term without binders that shares a
\* sub-term
C29_NoBinderCase ==
  /\ pt_done
  /\ found_binders(pt_root) = {}
  /\ SharedSubTerms(pt_root) # {}
  /\ LetsInScope
  /\ SharedWrittenOnce

\* a let symbol below a binder stands for another term than the one it
\* replaced
C29_CapturedSymbol ==
  /\ pt_done
  /\ ~LetsInScope

\* start() and stop() were never called in the wrong state
NoTimerAssert == tm_outcome = "ok"

\* the statistic is running exactly while a Timer on it is alive
RunningWhileAlive == TimerStatistic_running(tm_stat) <=> tm_timers # <<>>

\* a tick of the clock while a Timer is alive is counted by elapsed()
TickCounted ==
  (tm_timers # <<>> /\ tm_now' = tm_now + 1)
    => TimerStatistic_elapsed(tm_stat', tm_now')
         = TimerStatistic_elapsed(tm_stat, tm_now) + 1

\* C30: for properly nested Timers on one TimerStatistic, start() is never
\* called while it is running and stop() never while it is stopped, the
\* statistic is running exactly while at least one Timer is alive, and
\* elapsed() covers the whole lifetime of the outermost Timer.
C30_TimerNesting ==
  /\ [](NoTimerAssert /\ RunningWhileAlive)
  /\ [][TickCounted]_vars

\* start() and stop() are guarded by running(), so their asserts hold
C30_GuardedStartStop == NoTimerAssert

\* an outer Timer is alive and the statistic is stopped: an inner Timer
\* ended before
C30_StoppedWhileAlive ==
  /\ tm_timers # <<>>
  /\ ~TimerStatistic_running(tm_stat)

====
